---- MODULE Spec2Model ----
(***************************************************************************)
(* A model of the "math" language of 46bit/langs: the abstract syntax     *)
(* tree and its Display rendering (src/src/lib.rs), the nom expression     *)
(* parser (src/src/parser/expression.rs), the tree-walking interpreter     *)
(* and the LLVM expression synthesiser                                     *)
(* (src/src/math/compiler/expression.rs).                                  *)
(*                                                                         *)
(* Source text is a sequence of bytes, each byte a one-character string.   *)
(* A parser takes the whole input s and a position p (the index of the     *)
(* next unread byte) and returns an IResult: Done with the position after  *)
(* the consumed bytes and the value, Error, Incomplete, or Panic (an       *)
(* unwrap() on Err, which unwinds through every combinator).               *)
(***************************************************************************)
EXTENDS Integers, Sequences, FiniteSets, TLC

VARIABLES
    phase,      \* position of the pipeline: which step ran last
    given,      \* what the run starts from: a Program, or what a source text was written from
    entry,      \* the parser the source text is handed to
    src,        \* the source bytes handed to the parser
    parsed,     \* the IResult of the parser on src
    rendered,   \* Display of the parsed Program
    reparsed,   \* the IResult of the parser on rendered
    testcase_inputs, \* the input vector of a run
    interpreted, \* the result of interpret on src and inputs
    compiled,   \* the lines printed by the compiled executable, or its failure
    emitted,    \* the result of compile on src
    llvm        \* the backend handles of a compilation: context, module and builder

vars == <<phase, given, entry, src, parsed, rendered, reparsed, testcase_inputs, interpreted,
          compiled, emitted, llvm>>

----------------------------------------------------------------------------
(* Bytes *)

Digit == {"0", "1", "2", "3", "4", "5", "6", "7", "8", "9"}

DigitChar == <<"0", "1", "2", "3", "4", "5", "6", "7", "8", "9">>

DigitVal(c) == CHOOSE d \in 0..9 : DigitChar[d + 1] = c

Lower == {"a", "b", "c", "d", "e", "f", "g", "h", "i", "j", "k", "l", "m",
          "n", "o", "p", "q", "r", "s", "t", "u", "v", "w", "x", "y", "z"}

\* nom's `sp` separator of ws!: space, tab, carriage return, line feed.
Whitespace == {" ", "\t", "\r", "\n"}

RESERVED_NAMES == {<<"i", "n", "p", "u", "t", "s">>,
                   <<"o", "u", "t", "p", "u", "t", "s">>,
                   <<"i", "f">>,
                   <<"m", "a", "t", "c", "h">>,
                   <<"_">>}

Min(a, b) == IF a < b THEN a ELSE b

\* The bytes of s from position p to the end.
From(s, p) == SubSeq(s, p, Len(s))

----------------------------------------------------------------------------
(* The abstract syntax tree, src/src/lib.rs *)

Operator == {"Subtract", "Add", "Divide", "Multiply"}

\* #[derive(PartialOrd, Ord)] orders the variants by declaration.
\* The order a sorted list of the operators' names would give.
OperatorOrdAlphabetical(o) ==
    CASE o = "Add"      -> 0
      [] o = "Divide"   -> 1
      [] o = "Multiply" -> 2
      [] o = "Subtract" -> 3

OperatorOrd(o) ==
    CASE o = "Subtract" -> 0
      [] o = "Add"      -> 1
      [] o = "Divide"   -> 2
      [] o = "Multiply" -> 3

I64(n) == [t |-> "I64", n |-> n]
Group(e) == [t |-> "Group", e |-> e]
VarSubstitution(name) == [t |-> "VarSubstitution", name |-> name]
FnApplication(name, args) == [t |-> "FnApplication", name |-> name, args |-> args]
MatchOperand(m) == [t |-> "Match", m |-> m]

Operand(o) == [t |-> "Operand", o |-> o]
Operation(op, l, r) == [t |-> "Operation", op |-> op, l |-> l, r |-> r]

MatcherValue(e) == [t |-> "Value", e |-> e]
Match(with, matchers, default) ==
    [with |-> with, clauses |-> matchers, default |-> default]

IsOperation(e) == e.t = "Operation"

OperandToken(o) == [t |-> "Operand", operand |-> o]
OperatorToken(op) == [t |-> "Operator", operator |-> op]

\* Expression::tokens: the operands and operators of the tree, in order.
RECURSIVE tokens(_)
tokens(e) ==
    IF e.t = "Operand" THEN <<OperandToken(e.o)>>
    ELSE tokens(e.l) \o <<OperatorToken(e.op)>> \o tokens(e.r)

----------------------------------------------------------------------------
(* Display, src/src/lib.rs *)

RECURSIVE DecimalDigits(_)
DecimalDigits(n) ==
    IF n < 10 THEN <<DigitChar[n + 1]>>
    ELSE DecimalDigits(n \div 10) \o <<DigitChar[(n % 10) + 1]>>

\* write!(f, "{}", n) for an i64.
DisplayI64(n) == IF n < 0 THEN <<"-">> \o DecimalDigits(-n) ELSE DecimalDigits(n)

DisplayName(name) == name

DisplayOperator(o) ==
    CASE o = "Subtract" -> <<"-">>
      [] o = "Add"      -> <<"+">>
      [] o = "Divide"   -> <<"/">>
      [] o = "Multiply" -> <<"*">>

\* `inner_operator < operator`: the child is written in parentheses.
\* Parentheses around an inner operator of equal precedence too.
NeedsParensOrEqual(inner_operator, operator) ==
    OperatorOrd(inner_operator) <= OperatorOrd(operator)

NeedsParens(inner_operator, operator) ==
    OperatorOrd(inner_operator) < OperatorOrd(operator)

RECURSIVE DisplayExpression(_)
RECURSIVE DisplayOperand(_)
RECURSIVE DisplayMatch(_)
RECURSIVE DisplayArgs(_, _)
RECURSIVE DisplayClauses(_, _)

\* A child written as it is, whatever its operator.
DisplayChildBare(operator, child) == DisplayExpression(child)

DisplayChild(operator, child) ==
    IF IsOperation(child) /\ NeedsParens(child.op, operator)
    THEN <<"(">> \o DisplayExpression(child) \o <<")">>
    ELSE DisplayExpression(child)

DisplayExpression(e) ==
    IF e.t = "Operand" THEN DisplayOperand(e.o)
    ELSE DisplayChild(e.op, e.l)
         \o <<" ">> \o DisplayOperator(e.op) \o <<" ">>
         \o DisplayChild(e.op, e.r)

DisplayArgs(args, i) ==
    IF i > Len(args) THEN <<>>
    ELSE (IF i > 1 THEN <<",", " ">> ELSE <<>>)
         \o DisplayExpression(args[i]) \o DisplayArgs(args, i + 1)

\* A rendering that writes the parentheses of a Group twice.
DisplayOperandDoubled(o) ==
    CASE o.t = "I64" -> DisplayI64(o.n)
      [] o.t = "Group" -> <<"(", "(">> \o DisplayExpression(o.e) \o <<")", ")">>
      [] o.t = "VarSubstitution" -> DisplayName(o.name)
      [] o.t = "FnApplication" ->
            DisplayName(o.name) \o <<"(">> \o DisplayArgs(o.args, 1) \o <<")">>
      [] o.t = "Match" -> DisplayMatch(o.m)

DisplayOperand(o) ==
    CASE o.t = "I64" -> DisplayI64(o.n)
      [] o.t = "Group" -> <<"(">> \o DisplayExpression(o.e) \o <<")">>
      [] o.t = "VarSubstitution" -> DisplayName(o.name)
      [] o.t = "FnApplication" ->
            DisplayName(o.name) \o <<"(">> \o DisplayArgs(o.args, 1) \o <<")">>
      [] o.t = "Match" -> DisplayMatch(o.m)

DisplayMatcher(matcher) == DisplayExpression(matcher.e)

DisplayClauses(clauses, i) ==
    IF i > Len(clauses) THEN <<>>
    ELSE DisplayMatcher(clauses[i][1]) \o <<" ", "=", ">", " ">>
         \o DisplayExpression(clauses[i][2]) \o <<",", " ">>
         \o DisplayClauses(clauses, i + 1)

\* A rendering that leaves the default arm out.
DisplayMatchNoDefault(m) ==
    <<"m", "a", "t", "c", "h", " ">> \o DisplayExpression(m.with) \o <<" ", "{", " ">>
    \o DisplayClauses(m.clauses, 1) \o <<"}">>

DisplayMatch(m) ==
    <<"m", "a", "t", "c", "h", " ">> \o DisplayExpression(m.with) \o <<" ", "{", " ">>
    \o DisplayClauses(m.clauses, 1)
    \o <<"_", " ", "=", ">", " ">> \o DisplayExpression(m.default) \o <<",", " ">>
    \o <<"}">>

----------------------------------------------------------------------------
(* nom's IResult and the combinators the grammar is built from *)

Done(pos, val) == [k |-> "Done", pos |-> pos, val |-> val]
Error(kind) == [k |-> "Error", e |-> kind]
Incomplete == [k |-> "Incomplete"]
\* A Rust panic inside a parser closure: the call never returns an IResult.
Panic == [k |-> "Panic"]

IsDone(r) == r.k = "Done"

\* eat_separator!(" \t\r\n"): skips whitespace, never fails.
RECURSIVE sp(_, _)
sp(s, p) == IF p <= Len(s) /\ s[p] \in Whitespace THEN sp(s, p + 1) ELSE p

\* The trailing separator of ws!(...): whitespace after a successful parse.
ws(s, r) == IF IsDone(r) THEN Done(sp(s, r.pos), r.val) ELSE r

\* tag!(t)
tag(s, p, t) ==
    LET m == Min(Len(s) - p + 1, Len(t)) IN
    IF SubSeq(s, p, p + m - 1) # SubSeq(t, 1, m) THEN Error("Tag")
    ELSE IF m < Len(t) THEN Incomplete
    ELSE Done(p + Len(t), t)

\* ws!(tag!(t))
ws_tag(s, p, t) == ws(s, tag(s, sp(s, p), t))

\* none_of!(set)
none_of(s, p, set) ==
    IF p > Len(s) THEN Incomplete
    ELSE IF s[p] \in set THEN Error("NoneOf")
    ELSE Done(p + 1, s[p])

\* peek!(r) at position p: the result of r without consuming input.
peek(p, r) == IF IsDone(r) THEN Done(p, r.val) ELSE r

\* opt!(r) at position p: an Error becomes None.
opt(p, r) ==
    CASE r.k = "Done" -> Done(r.pos, [some |-> TRUE, v |-> r.val])
      [] r.k = "Error" -> Done(p, [some |-> FALSE])
      [] OTHER -> r

\* complete!(r): an Incomplete becomes an Error.
complete(r) == IF r.k = "Incomplete" THEN Error("Complete") ELSE r

----------------------------------------------------------------------------
(* Integer literals *)

\* The decimal digits of i64::MAX, 9223372036854775807, and of -i64::MIN.
I64MaxDigits == <<9, 2, 2, 3, 3, 7, 2, 0, 3, 6, 8, 5, 4, 7, 7, 5, 8, 0, 7>>
I64MinDigits == <<9, 2, 2, 3, 3, 7, 2, 0, 3, 6, 8, 5, 4, 7, 7, 5, 8, 0, 8>>

RECURSIVE StripZeros(_)
StripZeros(ds) ==
    IF Len(ds) > 1 /\ ds[1] = "0" THEN StripZeros(Tail(ds)) ELSE ds

\* ds <= limit for two digit strings of the same length.
RECURSIVE DigitsLeq(_, _, _)
DigitsLeq(ds, limit, i) ==
    IF i > Len(ds) THEN TRUE
    ELSE IF DigitVal(ds[i]) < limit[i] THEN TRUE
    ELSE IF DigitVal(ds[i]) > limit[i] THEN FALSE
    ELSE DigitsLeq(ds, limit, i + 1)

\* The magnitude fits: checked_mul/checked_add (checked_sub) do not overflow.
FitsI64(ds, negative) ==
    LET z == StripZeros(ds)
        limit == IF negative THEN I64MinDigits ELSE I64MaxDigits IN
    \/ Len(z) < Len(limit)
    \/ Len(z) = Len(limit) /\ DigitsLeq(z, limit, 1)

RECURSIVE DecimalValue(_, _)
DecimalValue(ds, acc) ==
    IF ds = <<>> THEN acc
    ELSE DecimalValue(Tail(ds), acc * 10 + DigitVal(ds[1]))

\* str::parse::<i64>() on a run of digit and '-' bytes: Ok(n) or Err.
ParseI64(run) ==
    LET negative == run[1] = "-"
        ds == IF negative THEN Tail(run) ELSE run IN
    IF ds # <<>> /\ (\A i \in 1..Len(ds) : ds[i] \in Digit) /\ FitsI64(ds, negative)
    THEN [ok |-> TRUE, n |-> IF negative THEN -DecimalValue(ds, 0)
                             ELSE DecimalValue(ds, 0)]
    ELSE [ok |-> FALSE]

\* The first position at or after p whose byte is neither a digit nor '-'.
RECURSIVE TakeWhileDigitOrMinus(_, _)
TakeWhileDigitOrMinus(s, p) ==
    IF p <= Len(s) /\ (s[p] \in Digit \/ s[p] = "-")
    THEN TakeWhileDigitOrMinus(s, p + 1) ELSE p

\* map!(take_while1!(is_digit || '-'), |i| from_utf8(i).unwrap().parse().unwrap())
i64(s, p) ==
    LET n == TakeWhileDigitOrMinus(s, p) IN
    IF p > Len(s) THEN Incomplete
    ELSE IF n = p THEN Error("TakeWhile1")
    ELSE LET r == ParseI64(SubSeq(s, p, n - 1)) IN
         IF r.ok THEN Done(n, r.n) ELSE Panic

----------------------------------------------------------------------------
(* Names *)

RECURSIVE TakeWhileNameByte(_, _)
TakeWhileNameByte(s, p) ==
    IF p <= Len(s) /\ (s[p] \in Lower \/ s[p] = "_")
    THEN TakeWhileNameByte(s, p + 1) ELSE p

\* name: a lowercase letter, then lowercase letters and underscores; a reserved
\* word is not a name.
name(s, p) ==
    LET n == TakeWhileNameByte(s, p) IN
    IF p > Len(s) THEN Incomplete
    ELSE IF s[p] \notin Lower THEN Error("Name")
    ELSE IF SubSeq(s, p, n - 1) \in RESERVED_NAMES THEN Error("Name")
    ELSE Done(n, SubSeq(s, p, n - 1))

----------------------------------------------------------------------------
(* The precedence resolver *)

ShuntingYardNew(first_operand) ==
    [operands |-> <<Operand(first_operand)>>, operators |-> <<>>]

\* The fold with the two operands taken in the order they are popped.
ShuntingYardReduceSwapped(y) ==
    LET n == Len(y.operands)
        k == Len(y.operators) IN
    [operands |-> Append(SubSeq(y.operands, 1, n - 2),
                         Operation(y.operators[k], y.operands[n], y.operands[n - 1])),
     operators |-> SubSeq(y.operators, 1, k - 1)]

\* Fold the top pending operator and the two top operands into one Operation.
ShuntingYardReduce(y) ==
    LET n == Len(y.operands)
        k == Len(y.operators) IN
    [operands |-> Append(SubSeq(y.operands, 1, n - 2),
                         Operation(y.operators[k], y.operands[n - 1], y.operands[n])),
     operators |-> SubSeq(y.operators, 1, k - 1)]

\* Folded only before an operator of strictly lower precedence.
ReducesBeforeStrict(top, op) == OperatorOrd(op) < OperatorOrd(top)

\* The pending operator on top of the stack is folded before `op` is pushed.
ReducesBefore(top, op) == OperatorOrd(op) <= OperatorOrd(top)

RECURSIVE ShuntingYardReduceWhile(_, _)
ShuntingYardReduceWhile(y, op) ==
    IF y.operators # <<>> /\ ReducesBefore(y.operators[Len(y.operators)], op)
    THEN ShuntingYardReduceWhile(ShuntingYardReduce(y), op)
    ELSE y

ShuntingYardPush(y, op, operand) ==
    LET r == ShuntingYardReduceWhile(y, op) IN
    [operands |-> Append(r.operands, Operand(operand)),
     operators |-> Append(r.operators, op)]

RECURSIVE ShuntingYardIntoExpression(_)
ShuntingYardIntoExpression(y) ==
    IF y.operators = <<>> THEN y.operands[1]
    ELSE ShuntingYardIntoExpression(ShuntingYardReduce(y))

----------------------------------------------------------------------------
(* The grammar, src/src/parser/expression.rs *)

\* The parser named `kind` at position p of s.  The parsers of the grammar
\* call one another through it.
RECURSIVE parser(_, _, _)
RECURSIVE fold_many0(_, _, _)
RECURSIVE separated_list_loop(_, _, _, _)

\* one_of!("+-*/") mapped to the Operator.
operator(s, p) ==
    IF p > Len(s) THEN Incomplete
    ELSE CASE s[p] = "+" -> Done(p + 1, "Add")
           [] s[p] = "-" -> Done(p + 1, "Subtract")
           [] s[p] = "*" -> Done(p + 1, "Multiply")
           [] s[p] = "/" -> Done(p + 1, "Divide")
           [] OTHER -> Error("OneOf")

\* A name taken as a variable without a look at the byte after it.
variable_substitution_unchecked(s, p) == name(s, p)

\* name, then ws!(peek!(none_of!("("))): the byte after the name and its
\* whitespace is looked at and left in the input.
variable_substitution(s, p) ==
    LET n == name(s, p) IN
    IF ~IsDone(n) THEN n
    ELSE LET q == sp(s, n.pos)
             look == ws(s, peek(q, none_of(s, q, {"("}))) IN
         IF IsDone(look) THEN Done(look.pos, n.val) ELSE look

\* fold_many0!(pair!(ws!(operator), ws!(operand)), yard, push)
fold_many0(s, input, yard) ==
    IF input > Len(s) THEN Done(input, yard)
    ELSE LET o == ws(s, operator(s, sp(s, input))) IN
         CASE o.k = "Error" -> Done(input, yard)
           [] o.k = "Done" ->
                LET d == ws(s, parser("operand", s, sp(s, o.pos))) IN
                CASE d.k = "Error" -> Done(input, yard)
                  [] d.k = "Done" ->
                       IF d.pos = input THEN Error("Many0")
                       ELSE fold_many0(s, d.pos, ShuntingYardPush(yard, o.val, d.val))
                  [] OTHER -> d
           [] OTHER -> o

expression(s, p) ==
    LET first_operand == ws(s, parser("operand", s, sp(s, p))) IN
    IF ~IsDone(first_operand) THEN first_operand
    ELSE LET shunting_yard ==
                 fold_many0(s, first_operand.pos, ShuntingYardNew(first_operand.val)) IN
         IF ~IsDone(shunting_yard) THEN shunting_yard
         ELSE Done(shunting_yard.pos, ShuntingYardIntoExpression(shunting_yard.val))

\* delimited!(tag!("("), expression, tag!(")"))
group(s, p) ==
    LET open == tag(s, p, <<"(">>) IN
    IF ~IsDone(open) THEN open
    ELSE LET e == parser("expression", s, open.pos) IN
         IF ~IsDone(e) THEN e
         ELSE LET close == tag(s, e.pos, <<")">>) IN
              IF ~IsDone(close) THEN close ELSE Done(close.pos, e.val)

separated_list_loop(s, input, res, kind) ==
    LET sep == ws_tag(s, input, <<",">>) IN
    CASE sep.k = "Error" -> Done(input, res)
      [] sep.k = "Done" ->
           IF sep.pos = input THEN Done(input, res)
           ELSE LET e == parser(kind, s, sep.pos) IN
                CASE e.k = "Error" -> Done(input, res)
                  [] e.k = "Done" ->
                       IF e.pos = sep.pos THEN Done(input, res)
                       ELSE separated_list_loop(s, e.pos, Append(res, e.val), kind)
                  [] OTHER -> e
      [] OTHER -> sep

\* separated_list!(ws!(tag!(",")), element)
separated_list(s, p, kind) ==
    LET e == parser(kind, s, p) IN
    CASE e.k = "Error" -> Done(p, <<>>)
      [] e.k = "Done" ->
           IF e.pos = p THEN Error("SeparatedList")
           ELSE separated_list_loop(s, e.pos, <<e.val>>, kind)
      [] OTHER -> e

expressions(s, p) == separated_list(s, p, "expression")

function_application(s, p) ==
    LET n == name(s, p) IN
    IF ~IsDone(n) THEN n
    ELSE LET open == ws_tag(s, n.pos, <<"(">>) IN
         IF ~IsDone(open) THEN open
         ELSE LET args == opt(open.pos, parser("expressions", s, open.pos)) IN
              IF ~IsDone(args) THEN args
              ELSE LET close == ws_tag(s, args.pos, <<")">>) IN
                   IF ~IsDone(close) THEN close
                   ELSE Done(close.pos,
                             <<n.val, IF args.val.some THEN args.val.v ELSE <<>> >>)

\* The first `_` arm's expression; None when there is no `_` arm or a second one.
RECURSIVE default_clause_of_loop(_, _, _)
default_clause_of_loop(clauses, i, default) ==
    IF i > Len(clauses) THEN default
    ELSE IF clauses[i][1].t = "Default_"
         THEN IF ~default.some
              THEN default_clause_of_loop(clauses, i + 1,
                                          [some |-> TRUE, v |-> clauses[i][2]])
              ELSE [some |-> FALSE]
         ELSE default_clause_of_loop(clauses, i + 1, default)

\* The last default arm wins: the early `return None` on a second one is lost.
default_clause_of_last(clauses) ==
    LET ds == {i \in 1..Len(clauses) : clauses[i][1].t = "Default_"} IN
    IF ds = {} THEN [some |-> FALSE]
    ELSE [some |-> TRUE, v |-> clauses[CHOOSE i \in ds : \A j \in ds : j <= i][2]]

\* A default arm is taken only from the end of the list.
default_clause_of_trailing(clauses) ==
    IF clauses # <<>> /\ clauses[Len(clauses)][1].t = "Default_"
       /\ \A i \in 1..(Len(clauses) - 1) : clauses[i][1].t # "Default_"
    THEN [some |-> TRUE, v |-> clauses[Len(clauses)][2]]
    ELSE [some |-> FALSE]

default_clause_of(clauses) == default_clause_of_loop(clauses, 1, [some |-> FALSE])

\* The matcher arms, in the order of the clause list.
RECURSIVE matchers_of_loop(_, _, _)
matchers_of_loop(clauses, i, matchers) ==
    IF i > Len(clauses) THEN matchers
    ELSE IF clauses[i][1].t = "Matcher"
         THEN matchers_of_loop(clauses, i + 1,
                               Append(matchers, <<clauses[i][1].m, clauses[i][2]>>))
         ELSE matchers_of_loop(clauses, i + 1, matchers)

\* The matcher arms pushed to the front: the reverse of the source order.
matchers_of_reversed(clauses) ==
    LET m == matchers_of_loop(clauses, 1, <<>>) IN
    [i \in 1..Len(m) |-> m[Len(m) + 1 - i]]

matchers_of(clauses) == matchers_of_loop(clauses, 1, <<>>)

\* alt!(expression => Clause::Matcher | ws!(tag!("_")) => Clause::Default_),
\* ws!(tag!("=>")), expression
match_clause(s, p) ==
    LET e == parser("expression", s, p)
        clause ==
            CASE e.k = "Done" -> Done(e.pos, [t |-> "Matcher", m |-> MatcherValue(e.val)])
              [] e.k = "Error" ->
                   LET u == ws_tag(s, p, <<"_">>) IN
                   CASE u.k = "Done" -> Done(u.pos, [t |-> "Default_"])
                     [] u.k = "Error" -> Error("Alt")
                     [] OTHER -> u
              [] OTHER -> e IN
    IF ~IsDone(clause) THEN clause
    ELSE LET arrow == ws_tag(s, clause.pos, <<"=", ">">>) IN
         IF ~IsDone(arrow) THEN arrow
         ELSE LET value == parser("expression", s, arrow.pos) IN
              IF ~IsDone(value) THEN value
              ELSE Done(value.pos, <<clause.val, value.val>>)

\* map_opt!(separated_list!(ws!(tag!(",")), match_clause), ...)
match_clauses(s, p) ==
    LET l == separated_list(s, p, "match_clause") IN
    IF ~IsDone(l) THEN l
    ELSE LET default == default_clause_of(l.val) IN
         IF default.some THEN Done(l.pos, <<matchers_of(l.val), default.v>>)
         ELSE Error("MapOpt")

match_(s, p) ==
    LET kw == ws_tag(s, p, <<"m", "a", "t", "c", "h", " ">>) IN
    IF ~IsDone(kw) THEN kw
    ELSE LET with == parser("expression", s, kw.pos) IN
         IF ~IsDone(with) THEN with
         ELSE LET open == ws_tag(s, with.pos, <<"{">>) IN
              IF ~IsDone(open) THEN open
              ELSE LET clauses == parser("match_clauses", s, open.pos) IN
                   IF ~IsDone(clauses) THEN clauses
                   ELSE LET comma == opt(clauses.pos, ws_tag(s, clauses.pos, <<",">>)) IN
                        IF ~IsDone(comma) THEN comma
                        ELSE LET close == ws_tag(s, comma.pos, <<"}">>) IN
                             IF ~IsDone(close) THEN close
                             ELSE Done(close.pos,
                                       Match(with.val, clauses.val[1], clauses.val[2]))

\* One alternative of alt_complete!: the next one is tried unless this one is
\* Done (or panics); an Incomplete counts as a failure of the alternative.
Alt(r, next) ==
    IF r.k \in {"Done", "Panic"} THEN r ELSE next

operand(s, p) ==
    LET int == i64(s, p)
        grp == parser("group", s, p)
        var == variable_substitution(s, p)
        app == parser("function_application", s, p)
        mat == parser("match_", s, p) IN
    Alt(IF IsDone(int) THEN Done(int.pos, I64(int.val)) ELSE int,
    Alt(IF IsDone(grp) THEN Done(grp.pos, Group(grp.val)) ELSE grp,
    Alt(IF IsDone(var) THEN Done(var.pos, VarSubstitution(var.val)) ELSE var,
    Alt(IF IsDone(app) THEN Done(app.pos, FnApplication(app.val[1], app.val[2])) ELSE app,
    Alt(IF IsDone(mat) THEN Done(mat.pos, MatchOperand(mat.val)) ELSE mat,
        Error("Alt"))))))

----------------------------------------------------------------------------
(* Programs and statements, src/src/lib.rs *)

VarAssignment(n, e) == [t |-> "VarAssignment", name |-> n, e |-> e]
FnDefinition(n, params, e) ==
    [t |-> "FnDefinition", name |-> n, params |-> params, e |-> e]
Program(inputs, statements, outputs) ==
    [inputs |-> inputs, statements |-> statements, outputs |-> outputs]

\* names.iter().map(format).collect().join(", ")
RECURSIVE JoinNames(_, _)
JoinNames(names, i) ==
    IF i > Len(names) THEN <<>>
    ELSE (IF i > 1 THEN <<",", " ">> ELSE <<>>)
         \o DisplayName(names[i]) \o JoinNames(names, i + 1)

DisplayStatement(st) ==
    IF st.t = "VarAssignment"
    THEN DisplayName(st.name) \o <<" ", "=", " ">> \o DisplayExpression(st.e) \o <<";">>
    ELSE DisplayName(st.name) \o <<"(">> \o JoinNames(st.params, 1)
         \o <<")", " ", "=", " ">> \o DisplayExpression(st.e) \o <<";">>

RECURSIVE DisplayStatements(_, _)
DisplayStatements(sts, i) ==
    IF i > Len(sts) THEN <<>>
    ELSE (IF i > 1 THEN <<"\n">> ELSE <<>>)
         \o DisplayStatement(sts[i]) \o DisplayStatements(sts, i + 1)

DisplayProgram(program) ==
    <<"i", "n", "p", "u", "t", "s">>
    \o (IF program.inputs # <<>> THEN <<" ">> \o JoinNames(program.inputs, 1) ELSE <<>>)
    \o <<";", "\n">>
    \o (IF program.statements # <<>>
        THEN DisplayStatements(program.statements, 1) \o <<"\n">> ELSE <<>>)
    \o <<"o", "u", "t", "p", "u", "t", "s">>
    \o (IF program.outputs # <<>> THEN <<" ">> \o JoinNames(program.outputs, 1) ELSE <<>>)
    \o <<";">>

----------------------------------------------------------------------------
(* The program grammar of spec section 4.1 *)

RECURSIVE names_loop(_, _, _)
names_loop(s, input, res) ==
    LET sep == ws_tag(s, input, <<",">>) IN
    IF ~IsDone(sep) THEN Done(input, res)
    ELSE LET n == name(s, sep.pos) IN
         IF ~IsDone(n) THEN Done(input, res)
         ELSE names_loop(s, sp(s, n.pos), Append(res, n.val))

\* [ name ("," name)* ]
names(s, p) ==
    LET n == name(s, sp(s, p)) IN
    IF ~IsDone(n) THEN Done(p, <<>>)
    ELSE names_loop(s, sp(s, n.pos), <<n.val>>)

\* assign := name "=" expression ";"
var_assignment(s, p) ==
    LET n == name(s, sp(s, p)) IN
    IF ~IsDone(n) THEN n
    ELSE LET eq == ws_tag(s, n.pos, <<"=">>) IN
         IF ~IsDone(eq) THEN eq
         ELSE LET e == parser("expression", s, eq.pos) IN
              IF ~IsDone(e) THEN e
              ELSE LET semi == ws_tag(s, e.pos, <<";">>) IN
                   IF ~IsDone(semi) THEN semi
                   ELSE Done(semi.pos, VarAssignment(n.val, e.val))

\* fndef := name "(" [ name ("," name)* ] ")" "=" expression ";"
fn_definition(s, p) ==
    LET n == name(s, sp(s, p)) IN
    IF ~IsDone(n) THEN n
    ELSE LET open == ws_tag(s, n.pos, <<"(">>) IN
         IF ~IsDone(open) THEN open
         ELSE LET params == names(s, open.pos)
                  close == ws_tag(s, params.pos, <<")">>) IN
              IF ~IsDone(close) THEN close
              ELSE LET eq == ws_tag(s, close.pos, <<"=">>) IN
                   IF ~IsDone(eq) THEN eq
                   ELSE LET e == parser("expression", s, eq.pos) IN
                        IF ~IsDone(e) THEN e
                        ELSE LET semi == ws_tag(s, e.pos, <<";">>) IN
                             IF ~IsDone(semi) THEN semi
                             ELSE Done(semi.pos,
                                       FnDefinition(n.val, params.val, e.val))

\* statement := assign | fndef
statement(s, p) ==
    LET f == parser("fn_definition", s, p) IN
    IF f.k \in {"Done", "Panic"} THEN f ELSE parser("var_assignment", s, p)

\* statement*
RECURSIVE statements(_, _, _)
statements(s, input, res) ==
    LET st == parser("statement", s, input) IN
    CASE st.k = "Done" -> statements(s, st.pos, Append(res, st.val))
      [] st.k = "Panic" -> st
      [] OTHER -> Done(input, res)

\* program := "inputs" [names] ";" statement* "outputs" [names] ";"
program(s, p) ==
    LET kw_in == ws_tag(s, p, <<"i", "n", "p", "u", "t", "s">>) IN
    IF ~IsDone(kw_in) THEN kw_in
    ELSE LET ins == names(s, kw_in.pos)
             semi_in == ws_tag(s, ins.pos, <<";">>) IN
         IF ~IsDone(semi_in) THEN semi_in
         ELSE LET sts == statements(s, semi_in.pos, <<>>) IN
              IF ~IsDone(sts) THEN sts
              ELSE LET kw_out == ws_tag(s, sts.pos, <<"o", "u", "t", "p", "u", "t", "s">>) IN
                   IF ~IsDone(kw_out) THEN kw_out
                   ELSE LET outs == names(s, kw_out.pos)
                            semi_out == ws_tag(s, outs.pos, <<";">>) IN
                        IF ~IsDone(semi_out) THEN semi_out
                        ELSE Done(semi_out.pos, Program(ins.val, sts.val, outs.val))

parser(kind, s, p) ==
    CASE kind = "expression" -> expression(s, p)
      [] kind = "operand" -> operand(s, p)
      [] kind = "group" -> group(s, p)
      [] kind = "function_application" -> function_application(s, p)
      [] kind = "expressions" -> expressions(s, p)
      [] kind = "match_" -> match_(s, p)
      [] kind = "match_clauses" -> match_clauses(s, p)
      [] kind = "match_clause" -> match_clause(s, p)
      [] kind = "fn_definition" -> fn_definition(s, p)
      [] kind = "var_assignment" -> var_assignment(s, p)
      [] kind = "statement" -> statement(s, p)
      [] kind = "program" -> program(s, p)

----------------------------------------------------------------------------
(* The interpreter of spec section 4.2 *)

Ok(v) == [ok |-> TRUE, v |-> v]
Err(e) == [ok |-> FALSE, err |-> e]

\* An i64 is WordBytes bytes in two's complement, the least significant byte
\* first.  The model checker's own integers are narrower, so the arithmetic
\* of both execution paths is carried out on the bytes.
WordBytes == 8

RECURSIVE ToWordFrom(_, _)
ToWordFrom(n, k) ==
    IF k = 0 THEN <<>> ELSE <<n % 256>> \o ToWordFrom(n \div 256, k - 1)

\* The i64 of a small integer, sign-extended.
ToWord(n) == ToWordFrom(n, WordBytes)

IsNegative(w) == w[WordBytes] >= 128

RECURSIVE FromWordFrom(_, _, _)
FromWordFrom(w, k, acc) ==
    IF k = 0 THEN acc ELSE FromWordFrom(w, k - 1, acc * 256 + w[k])

\* The integer an i64 stands for (computable for small magnitudes only).
FromWord(w) ==
    FromWordFrom(w, WordBytes - 1,
                 IF IsNegative(w) THEN w[WordBytes] - 256 ELSE w[WordBytes])

\* i64::MIN and i64::MAX.
I64Min == [k \in 1..WordBytes |-> IF k = WordBytes THEN 128 ELSE 0]
I64Max == [k \in 1..WordBytes |-> IF k = WordBytes THEN 127 ELSE 255]

\* Byte-wise addition from byte k with a carry in; the carry out of the last
\* byte is dropped, which is the reduction modulo 2^64.
RECURSIVE AddBytes(_, _, _, _)
AddBytes(a, b, k, carry) ==
    IF k > Len(a) THEN <<>>
    ELSE <<(a[k] + b[k] + carry) % 256>>
         \o AddBytes(a, b, k + 1, (a[k] + b[k] + carry) \div 256)

WordNot(a) == [k \in 1..Len(a) |-> 255 - a[k]]

\* An addition that stops at i64::MIN and i64::MAX.
saturating_add(a, b) ==
    IF IsNegative(a) = IsNegative(b) /\ IsNegative(AddBytes(a, b, 1, 0)) # IsNegative(a)
    THEN (IF IsNegative(a) THEN I64Min ELSE I64Max)
    ELSE AddBytes(a, b, 1, 0)

wrapping_add(a, b) == AddBytes(a, b, 1, 0)
wrapping_neg(a) == AddBytes(WordNot(a), ToWord(0), 1, 1)
wrapping_sub(a, b) == AddBytes(a, WordNot(b), 1, 1)

\* The sum of the byte products a[i] * b[k + 1 - i] of column k, from i on.
RECURSIVE ColumnSum(_, _, _, _)
ColumnSum(a, b, k, i) ==
    IF i > k THEN 0
    ELSE (IF i <= Len(a) /\ k + 1 - i <= Len(b) THEN a[i] * b[k + 1 - i] ELSE 0)
         + ColumnSum(a, b, k, i + 1)

\* The low n bytes of the product, column by column.
RECURSIVE MulBytes(_, _, _, _, _)
MulBytes(a, b, k, n, carry) ==
    IF k > n THEN <<>>
    ELSE <<(ColumnSum(a, b, k, 1) + carry) % 256>>
         \o MulBytes(a, b, k + 1, n, (ColumnSum(a, b, k, 1) + carry) \div 256)

wrapping_mul(a, b) == MulBytes(a, b, 1, WordBytes, 0)

\* Bit i of a word, bit 0 the least significant.
Bit(w, i) == (w[(i \div 8) + 1] \div (2 ^ (i % 8))) % 2

\* a < b as unsigned numbers, compared from byte k downward.
RECURSIVE UnsignedLess(_, _, _)
UnsignedLess(a, b, k) ==
    IF k = 0 THEN FALSE
    ELSE IF a[k] # b[k] THEN a[k] < b[k]
    ELSE UnsignedLess(a, b, k - 1)

\* The highest non-zero byte of a word, 0 for the zero word.
RECURSIVE TopByte(_, _)
TopByte(w, k) == IF k = 0 \/ w[k] # 0 THEN k ELSE TopByte(w, k - 1)

\* One step of the long division of n by d: bit i of n is shifted into the
\* remainder, d is subtracted if it fits, and the quotient gets the bit that
\* says so.
DivideStep(n, d, i, q, r) ==
    IF UnsignedLess(AddBytes(r, r, 1, Bit(n, i)), d, WordBytes)
    THEN [q |-> AddBytes(q, q, 1, 0), r |-> AddBytes(r, r, 1, Bit(n, i))]
    ELSE [q |-> AddBytes(q, q, 1, 1), r |-> wrapping_sub(AddBytes(r, r, 1, Bit(n, i)), d)]

\* Unsigned long division of n by d, one bit at a time from bit i downward:
\* quotient so far q, remainder so far r.
RECURSIVE DivideBits(_, _, _, _, _)
DivideBits(n, d, i, q, r) ==
    IF i < 0 THEN [q |-> q, r |-> r]
    ELSE CHOOSE result \in {DivideBits(n, d, i - 1, step.q, step.r) :
                               step \in {DivideStep(n, d, i, q, r)}} : TRUE

WordAbs(a) == IF IsNegative(a) THEN wrapping_neg(a) ELSE a

UnsignedDiv(n, d) ==
    DivideBits(n, d, 8 * TopByte(n, WordBytes) - 1, ToWord(0), ToWord(0))

\* Signed division truncating toward zero; the one quotient that does not
\* fit, i64::MIN / -1, wraps to i64::MIN.
wrapping_div(a, b) ==
    IF IsNegative(a) = IsNegative(b)
    THEN UnsignedDiv(WordAbs(a), WordAbs(b)).q
    ELSE wrapping_neg(UnsignedDiv(WordAbs(a), WordAbs(b)).q)

\* The operator on two i64 values.
Apply(op, a, b) ==
    CASE op = "Add" -> Ok(wrapping_add(a, b))
      [] op = "Subtract" -> Ok(wrapping_sub(a, b))
      [] op = "Multiply" -> Ok(wrapping_mul(a, b))
      [] op = "Divide" ->
            IF b = ToWord(0) THEN Err("DivideByZero") ELSE Ok(wrapping_div(a, b))

\* A result on i64 values read back as a result on integers.
Narrow(r) == IF r.ok THEN Ok(FromWord(r.v)) ELSE r

EmptyEnv == <<>>

\* params[i] bound to values[i], a later duplicate overwriting an earlier one.
RECURSIVE Bind(_, _, _)
Bind(params, values, env) ==
    IF params = <<>> THEN env
    ELSE Bind(Tail(params), Tail(values), (params[1] :> values[1]) @@ env)

\* A callee environment that starts from the caller's bindings.
CalleeEnvInherited(params, values, caller) == Bind(params, values, caller)

\* The environment a function body is evaluated in: the parameters bound to
\* the argument values and nothing else, whatever the caller's bindings.
CalleeEnv(params, values, caller) == Bind(params, values, EmptyEnv)

RECURSIVE Eval(_, _, _, _)
RECURSIVE EvalOperand(_, _, _, _)
RECURSIVE EvalArgs(_, _, _, _, _, _)
RECURSIVE EvalClauses(_, _, _, _, _, _)

Eval(e, env, fns, fuel) ==
    IF e.t = "Operand" THEN EvalOperand(e.o, env, fns, fuel)
    ELSE LET l == Eval(e.l, env, fns, fuel) IN
         IF ~l.ok THEN l
         ELSE LET r == Eval(e.r, env, fns, fuel) IN
              IF ~r.ok THEN r ELSE Narrow(Apply(e.op, ToWord(l.v), ToWord(r.v)))

\* The values of args[i..] appended to acc, or the first error.
EvalArgs(args, i, acc, env, fns, fuel) ==
    IF i > Len(args) THEN Ok(acc)
    ELSE LET a == Eval(args[i], env, fns, fuel) IN
         IF ~a.ok THEN a ELSE EvalArgs(args, i + 1, Append(acc, a.v), env, fns, fuel)

\* Scan the clauses in order from i: the first matcher equal to `with` wins.
EvalClauses(m, i, with, env, fns, fuel) ==
    IF i > Len(m.clauses) THEN Eval(m.default, env, fns, fuel)
    ELSE LET matcher == Eval(m.clauses[i][1].e, env, fns, fuel) IN
         IF ~matcher.ok THEN matcher
         ELSE IF matcher.v = with THEN Eval(m.clauses[i][2], env, fns, fuel)
         ELSE EvalClauses(m, i + 1, with, env, fns, fuel)

EvalOperand(o, env, fns, fuel) ==
    CASE o.t = "I64" -> Ok(o.n)
      [] o.t = "Group" -> Eval(o.e, env, fns, fuel)
      [] o.t = "VarSubstitution" ->
            IF o.name \in DOMAIN env THEN Ok(env[o.name]) ELSE Err("UnresolvedVariable")
      [] o.t = "FnApplication" ->
            IF o.name \notin DOMAIN fns THEN Err("UnresolvedFunction")
            ELSE LET f == fns[o.name] IN
                 IF Len(o.args) # Len(f.params) THEN Err("ArityMismatch")
                 ELSE LET args == EvalArgs(o.args, 1, <<>>, env, fns, fuel) IN
                      IF ~args.ok THEN args
                      ELSE IF fuel = 0 THEN Err("StackOverflow")
                      ELSE Eval(f.e, CalleeEnv(f.params, args.v, env), fns, fuel - 1)
      [] o.t = "Match" ->
            LET with == Eval(o.m.with, env, fns, fuel) IN
            IF ~with.ok THEN with
            ELSE EvalClauses(o.m, 1, with.v, env, fns, fuel)

\* The output values collected last name first.
RECURSIVE ReadOutputsReversed(_, _, _, _)
ReadOutputsReversed(outputs, i, acc, env) ==
    IF i > Len(outputs) THEN Ok(acc)
    ELSE IF outputs[i] \in DOMAIN env
         THEN ReadOutputsReversed(outputs, i + 1, <<env[outputs[i]]>> \o acc, env)
         ELSE Err("UnresolvedVariable")

\* The values of the output names in the final environment.
RECURSIVE ReadOutputs(_, _, _, _)
ReadOutputs(outputs, i, acc, env) ==
    IF i > Len(outputs) THEN Ok(acc)
    ELSE IF outputs[i] \in DOMAIN env
         THEN ReadOutputs(outputs, i + 1, Append(acc, env[outputs[i]]), env)
         ELSE Err("UnresolvedVariable")

\* An environment in which a bound name keeps its first value.
AssignUnlessBound(env, st, v) == env @@ (st.name :> v)

\* The environment after a VarAssignment: the binding is inserted, or
\* overwrites the earlier binding of the name.
Assign(env, st, v) == (st.name :> v) @@ env

\* A function table in which the first definition of a name stays.
RegisterUnlessDefined(fns, st) ==
    fns @@ (st.name :> [params |-> st.params, e |-> st.e])

\* The function table after a FnDefinition: the definition replaces any
\* earlier one of the same name.
Register(fns, st) ==
    (st.name :> [params |-> st.params, e |-> st.e]) @@ fns

RECURSIVE ExecuteStatements(_, _, _, _, _)
ExecuteStatements(prog, i, env, fns, fuel) ==
    IF i > Len(prog.statements) THEN ReadOutputs(prog.outputs, 1, <<>>, env)
    ELSE LET st == prog.statements[i] IN
         IF st.t = "VarAssignment"
         THEN LET v == Eval(st.e, env, fns, fuel) IN
              IF ~v.ok THEN v
              ELSE ExecuteStatements(prog, i + 1, Assign(env, st, v.v), fns, fuel)
         ELSE ExecuteStatements(prog, i + 1, env, Register(fns, st), fuel)

----------------------------------------------------------------------------
(* The code generator: src/src/math/compiler/expression.rs and spec 4.3 *)

\* The index of the FnDefinition a call to `name` is bound to when the call is
\* written in statement `at`: the latest definition of the name at or before
\* `at` (a function sees itself), 0 when there is none.
RECURSIVE FnVisibleAt(_, _, _)
FnVisibleAt(prog, fn, at) ==
    IF at = 0 THEN 0
    ELSE IF prog.statements[at].t = "FnDefinition" /\ prog.statements[at].name = fn
         THEN at
         ELSE FnVisibleAt(prog, fn, at - 1)

\* A binding that only looks backward from the call.
FnBoundBackward(prog, fn, at) == FnVisibleAt(prog, fn, at)

\* The FnDefinition the call instruction of a call to `fn` written in
\* statement `at` is bound to: the definition visible at that position, else
\* (functions are declared ahead of their bodies) the declaration standing
\* for the name, which is its last definition; 0 when the name is never
\* defined.
FnBoundAt(prog, fn, at) ==
    IF FnVisibleAt(prog, fn, at) # 0 THEN FnVisibleAt(prog, fn, at)
    ELSE FnVisibleAt(prog, fn, Len(prog.statements))

RECURSIVE Resolves(_, _, _, _)
RECURSIVE ResolvesOperand(_, _, _, _)

\* Every variable read of e has a materialised value (self.vars[name] does not
\* panic) and every call names a declared function of the same arity.
Resolves(e, scope, prog, at) ==
    IF e.t = "Operand" THEN ResolvesOperand(e.o, scope, prog, at)
    ELSE Resolves(e.l, scope, prog, at) /\ Resolves(e.r, scope, prog, at)

ResolvesOperand(o, scope, prog, at) ==
    CASE o.t = "I64" -> TRUE
      [] o.t = "Group" -> Resolves(o.e, scope, prog, at)
      [] o.t = "VarSubstitution" -> o.name \in scope
      [] o.t = "FnApplication" ->
            /\ FnBoundAt(prog, o.name, at) # 0
            /\ Len(prog.statements[FnBoundAt(prog, o.name, at)].params) = Len(o.args)
            /\ \A i \in 1..Len(o.args) : Resolves(o.args[i], scope, prog, at)
      [] o.t = "Match" ->
            /\ Resolves(o.m.with, scope, prog, at)
            /\ Resolves(o.m.default, scope, prog, at)
            /\ \A i \in 1..Len(o.m.clauses) :
                  /\ Resolves(o.m.clauses[i][1].e, scope, prog, at)
                  /\ Resolves(o.m.clauses[i][2], scope, prog, at)

Range(f) == {f[i] : i \in DOMAIN f}

\* The names with a value when statement i is lowered.
ScopeAt(prog, i) ==
    Range(prog.inputs)
    \cup {prog.statements[j].name :
            j \in {k \in 1..(i - 1) : prog.statements[k].t = "VarAssignment"}}

\* The program up to and including statement k.
Prefix(prog, k) == [prog EXCEPT !.statements = SubSeq(prog.statements, 1, k)]

\* The whole program lowers without a compile-time failure.  A call written
\* in a statement of the entry function needs a definition before it, as in
\* the interpreter; a call written in a function body may name a function
\* declared later.
Compiles(prog) ==
    /\ \A i \in 1..Len(prog.statements) :
          LET st == prog.statements[i] IN
          IF st.t = "VarAssignment"
          THEN Resolves(st.e, ScopeAt(prog, i), Prefix(prog, i - 1), i - 1)
          ELSE Resolves(st.e, Range(st.params), prog, i)
    /\ \A i \in 1..Len(prog.outputs) :
          prog.outputs[i] \in ScopeAt(prog, Len(prog.statements) + 1)

\* An instruction value, as the synthesiser returns it.
LLVMValueRef == [k |-> "LLVMValueRef"]

\* ExpressionSynthesiser::synthesise builds the instructions of an expression
\* and returns their value; it has no error to return.  `self.vars[name]`
\* indexes the map of materialised values and panics on a name it does not
\* hold.  The names given to the index:
RECURSIVE IndexedNames(_)
IndexedNames(expression_) ==
    IF expression_.t = "Operation"
    THEN IndexedNames(expression_.l) \cup IndexedNames(expression_.r)
    ELSE CASE expression_.o.t = "Group" -> IndexedNames(expression_.o.e)
           [] expression_.o.t = "VarSubstitution" -> {expression_.o.name}
           [] expression_.o.t = "FnApplication" ->
                 UNION {IndexedNames(expression_.o.args[i]) :
                           i \in 1..Len(expression_.o.args)}
           [] OTHER -> {}

synthesise(expression_, vars_) ==
    IF IndexedNames(expression_) \subseteq vars_ THEN LLVMValueRef ELSE Panic

\* Every statement of the program is handed to the synthesiser with the names
\* that have a value where it stands: Panic when one of them panics.
synthesise_statements(prog) ==
    IF \A i \in 1..Len(prog.statements) :
          synthesise(prog.statements[i].e,
                     IF prog.statements[i].t = "VarAssignment"
                     THEN ScopeAt(prog, i)
                     ELSE Range(prog.statements[i].params)) = LLVMValueRef
    THEN LLVMValueRef
    ELSE Panic

\* The value an instruction built by synthesise_operation computes on two i64
\* values.  add, sub and mul are built without overflow flags and wrap.  sdiv
\* by zero, and sdiv of i64::MIN by -1, are undefined behaviour: `ub` is what
\* the build makes of it, a trap or some value.
synthesise_operation(operator_, llvm_lhs, llvm_rhs, ub) ==
    CASE operator_ = "Subtract" -> Ok(wrapping_sub(llvm_lhs, llvm_rhs))
      [] operator_ = "Add" -> Ok(wrapping_add(llvm_lhs, llvm_rhs))
      [] operator_ = "Divide" ->
            IF llvm_rhs = ToWord(0) \/ (llvm_lhs = I64Min /\ llvm_rhs = ToWord(-1))
            THEN (IF ub.trap THEN Err("Trap") ELSE Ok(ToWord(ub.v)))
            ELSE Ok(wrapping_div(llvm_lhs, llvm_rhs))
      [] operator_ = "Multiply" -> Ok(wrapping_mul(llvm_lhs, llvm_rhs))

RECURSIVE synthesise_expression(_, _, _, _, _, _)
RECURSIVE synthesise_operand(_, _, _, _, _, _)
RECURSIVE synthesise_args(_, _, _, _, _, _, _, _)
RECURSIVE synthesise_match(_, _, _, _, _, _, _, _)

\* The value the code emitted for `expression` computes when it runs with the
\* values `vars`; `at` is the statement the expression is written in.
synthesise_expression(expression_, vars_, prog, at, fuel, ub) ==
    IF expression_.t = "Operand"
    THEN synthesise_operand(expression_.o, vars_, prog, at, fuel, ub)
    ELSE LET llvm_lhs == synthesise_expression(expression_.l, vars_, prog, at, fuel, ub) IN
         IF ~llvm_lhs.ok THEN llvm_lhs
         ELSE LET llvm_rhs == synthesise_expression(expression_.r, vars_, prog, at, fuel, ub) IN
              IF ~llvm_rhs.ok THEN llvm_rhs
              ELSE Narrow(synthesise_operation(expression_.op, ToWord(llvm_lhs.v),
                                               ToWord(llvm_rhs.v), ub))

synthesise_args(args, i, acc, vars_, prog, at, fuel, ub) ==
    IF i > Len(args) THEN Ok(acc)
    ELSE LET a == synthesise_expression(args[i], vars_, prog, at, fuel, ub) IN
         IF ~a.ok THEN a
         ELSE synthesise_args(args, i + 1, Append(acc, a.v), vars_, prog, at, fuel, ub)

\* The chain of compare-and-branch blocks, the default as the last fallthrough.
synthesise_match(m, i, with, vars_, prog, at, fuel, ub) ==
    IF i > Len(m.clauses) THEN synthesise_expression(m.default, vars_, prog, at, fuel, ub)
    ELSE LET matcher == synthesise_expression(m.clauses[i][1].e, vars_, prog, at, fuel, ub) IN
         IF ~matcher.ok THEN matcher
         ELSE IF matcher.v = with
              THEN synthesise_expression(m.clauses[i][2], vars_, prog, at, fuel, ub)
              ELSE synthesise_match(m, i + 1, with, vars_, prog, at, fuel, ub)

\* A Group lowered to the value of its left-most operand only.
synthesise_group_left(expression_, vars_, prog, at, fuel, ub) ==
    IF expression_.t = "Operation"
    THEN synthesise_expression(expression_.l, vars_, prog, at, fuel, ub)
    ELSE synthesise_expression(expression_, vars_, prog, at, fuel, ub)

\* &Operand::Group(ref expression) => self.synthesise_expression(expression)
synthesise_group(expression_, vars_, prog, at, fuel, ub) ==
    synthesise_expression(expression_, vars_, prog, at, fuel, ub)

synthesise_operand(o, vars_, prog, at, fuel, ub) ==
    CASE o.t = "I64" -> Ok(o.n)
      [] o.t = "Group" -> synthesise_group(o.e, vars_, prog, at, fuel, ub)
      [] o.t = "VarSubstitution" -> Ok(vars_[o.name])
      [] o.t = "FnApplication" ->
            LET args == synthesise_args(o.args, 1, <<>>, vars_, prog, at, fuel, ub)
                callee == FnBoundAt(prog, o.name, at) IN
            IF ~args.ok THEN args
            ELSE IF fuel = 0 THEN Err("StackOverflow")
            ELSE synthesise_expression(prog.statements[callee].e,
                                       Bind(prog.statements[callee].params, args.v, EmptyEnv),
                                       prog, callee, fuel - 1, ub)
      [] o.t = "Match" ->
            LET with == synthesise_expression(o.m.with, vars_, prog, at, fuel, ub) IN
            IF ~with.ok THEN with
            ELSE synthesise_match(o.m, 1, with.v, vars_, prog, at, fuel, ub)

\* One line of standard output per output name, in declared order.
RECURSIVE WriteOutputs(_, _, _, _)
WriteOutputs(outputs, i, acc, vars_) ==
    IF i > Len(outputs) THEN Ok(acc)
    ELSE WriteOutputs(outputs, i + 1, Append(acc, DisplayI64(vars_[outputs[i]])), vars_)

\* The entry function: each statement in order, then the outputs.
RECURSIVE RunStatements(_, _, _, _, _)
RunStatements(prog, i, vars_, fuel, ub) ==
    IF i > Len(prog.statements) THEN WriteOutputs(prog.outputs, 1, <<>>, vars_)
    ELSE LET st == prog.statements[i] IN
         IF st.t = "VarAssignment"
         THEN LET v == synthesise_expression(st.e, vars_, prog, i - 1, fuel, ub) IN
              IF ~v.ok THEN v
              ELSE RunStatements(prog, i + 1, (st.name :> v.v) @@ vars_, fuel, ub)
         ELSE RunStatements(prog, i + 1, vars_, fuel, ub)

----------------------------------------------------------------------------
(* Bounds of the model *)

\* Operation nodes of a generated expression; operators of a written chain.
MaxOperations == 2
\* Magnitude of the integer literals.
MaxInt == 12
\* Arms of a written match.
MaxArms == 3
\* Length of a raw byte string.
MaxBytes == 3
\* Nested calls before the call stack is exhausted.
StackDepth == 3
\* Statements of a program written from a pool of statements.
MaxStatements == 4
\* Distance of an operand from 0, from i64::MIN and from i64::MAX.
MaxOffset == 2
\* Operators of a long written chain.
MaxChain == 4

----------------------------------------------------------------------------
(* Programs handed to Display *)

NameA == <<"a">>
NameB == <<"b", "_", "c">>
NameF == <<"f">>
NameR == <<"r">>

Leaves == {Operand(VarSubstitution(NameA)), Operand(I64(-MaxInt))}

\* The expressions with exactly k Operation nodes over Leaves: every shape,
\* every operator at every node.
Trees[k \in 0..MaxOperations] ==
    IF k = 0 THEN Leaves
    ELSE UNION {{Operation(op, l, r) : op \in Operator, l \in Trees[i], r \in Trees[k - 1 - i]}
                : i \in 0..(k - 1)}

AllTrees == UNION {Trees[k] : k \in 0..MaxOperations}

SmallTrees == Trees[0] \cup Trees[1]

Groups == {Group(e) : e \in SmallTrees}

Applications ==
    {FnApplication(NameF, args) :
        args \in {<<>>} \cup {<<e>> : e \in SmallTrees}
                 \cup {<<e1, e2>> : e1 \in Leaves, e2 \in Leaves}}

SampleClauses ==
    {<<>>}
    \cup {<<<<MatcherValue(m), v>>>> : m \in Leaves, v \in Leaves}
    \cup {<<<<MatcherValue(Operand(I64(1))), Operand(I64(2))>>,
            <<MatcherValue(m), Operand(I64(MaxInt))>>>> : m \in SmallTrees}

Matches ==
    {Match(with, clauses, default) :
        with \in Leaves \cup {Operation("Multiply", Operand(I64(5)), Operand(VarSubstitution(NameA)))},
        clauses \in SampleClauses,
        default \in Leaves \cup {Operation("Subtract", Operand(VarSubstitution(NameA)), Operand(I64(1)))}}

CompoundOperands ==
    Groups \cup Applications \cup {MatchOperand(m) : m \in Matches}

Literals == {Operand(I64(n)) : n \in (-MaxInt)..MaxInt}

\* A compound operand alone and as either child of an Operation.
CompoundExpressions ==
    {Operand(c) : c \in CompoundOperands}
    \cup {Operation(op, Operand(c), l) : op \in Operator, c \in CompoundOperands, l \in Leaves}
    \cup {Operation(op, l, Operand(c)) : op \in Operator, c \in CompoundOperands, l \in Leaves}

Expressions == AllTrees \cup Literals \cup CompoundExpressions

\* f(a) = match a { 0 => 0, _ => f(a - 1) }: recursion that ends from a >= 0.
Countdown ==
    Operand(MatchOperand(Match(
        Operand(VarSubstitution(NameA)),
        <<<<MatcherValue(Operand(I64(0))), Operand(I64(0))>>>>,
        Operand(FnApplication(NameF,
            <<Operation("Subtract", Operand(VarSubstitution(NameA)), Operand(I64(1)))>>)))))

\* 1 / 0
OneOverZero == Operation("Divide", Operand(I64(1)), Operand(I64(0)))

Programs ==
    {Program(<<NameA>>, <<VarAssignment(NameR, e)>>, <<NameR>>) : e \in Expressions}
    \cup {Program(ins, <<FnDefinition(NameF, params, e), VarAssignment(NameR, e)>>, outs) :
            ins \in {<<>>, <<NameA, NameB>>},
            params \in {<<>>, <<NameA>>, <<NameA, NameB>>},
            e \in SmallTrees,
            outs \in {<<>>, <<NameR, NameA>>}}
    \cup {Program(ins, <<>>, ins) : ins \in {<<>>, <<NameA>>, <<NameA, NameB>>}}
    \cup {Program(<<>>, <<VarAssignment(NameR, OneOverZero)>>, <<NameR>>)}
    \cup {Program(<<NameA>>,
                  <<FnDefinition(NameF, <<NameA>>, body),
                    VarAssignment(NameR, Operand(FnApplication(NameF, <<arg>>)))>>,
                  <<NameR>>) :
            body \in SmallTrees \cup {Countdown}, arg \in SmallTrees}

----------------------------------------------------------------------------
(* The generator of testcases, src/src/lib.rs *)

\* arbitrary_name: a lowercase letter, then lowercase letters and
\* underscores, drawn again while it is a reserved name.
arbitrary_name(n) ==
    /\ n # <<>>
    /\ n[1] \in Lower
    /\ \A i \in 1..Len(n) : n[i] \in Lower \cup {"_"}
    /\ n \notin RESERVED_NAMES

\* The elements of a sequence are pairwise different.
Distinct(seq) == \A i \in 1..Len(seq) : \A j \in 1..Len(seq) : seq[i] = seq[j] => i = j

RECURSIVE arbitrary_expression(_, _, _)
RECURSIVE arbitrary_operand(_, _, _)

\* exp0 and exp1 of a generated Operation: an Operation whose inner_operator
\* < operator is put in a Group, and a Group comes from nowhere else.
arbitrary_child(operator_, exp, vars_, fns_) ==
    IF IsOperation(exp)
    THEN /\ ~(OperatorOrd(exp.op) < OperatorOrd(operator_))
         /\ arbitrary_expression(exp, vars_, fns_)
    ELSE IF exp.o.t = "Group"
    THEN /\ IsOperation(exp.o.e)
         /\ OperatorOrd(exp.o.e.op) < OperatorOrd(operator_)
         /\ arbitrary_expression(exp.o.e, vars_, fns_)
    ELSE arbitrary_operand(exp.o, vars_, fns_)

\* e is an Expression arbitrary_expression can return over the variables
\* vars_ and the functions fns_ (name to number of parameters).
arbitrary_expression(e, vars_, fns_) ==
    IF IsOperation(e)
    THEN arbitrary_child(e.op, e.l, vars_, fns_) /\ arbitrary_child(e.op, e.r, vars_, fns_)
    ELSE arbitrary_operand(e.o, vars_, fns_)

\* o is an Operand arbitrary_operand can return: any literal, a variable of
\* vars_, a call of a function of fns_ with as many arguments as it has
\* parameters, or a match with pairwise different matchers.
arbitrary_operand(o, vars_, fns_) ==
    CASE o.t = "I64" -> TRUE
      [] o.t = "Group" -> FALSE
      [] o.t = "VarSubstitution" -> o.name \in vars_
      [] o.t = "FnApplication" ->
            /\ o.name \in DOMAIN fns_
            /\ Len(o.args) = fns_[o.name]
            /\ \A i \in 1..Len(o.args) : arbitrary_expression(o.args[i], vars_, fns_)
      [] o.t = "Match" ->
            /\ Distinct([i \in 1..Len(o.m.clauses) |-> o.m.clauses[i][1]])
            /\ arbitrary_expression(o.m.with, vars_, fns_)
            /\ arbitrary_expression(o.m.default, vars_, fns_)
            /\ \A i \in 1..Len(o.m.clauses) :
                  /\ arbitrary_expression(o.m.clauses[i][1].e, vars_, fns_)
                  /\ arbitrary_expression(o.m.clauses[i][2], vars_, fns_)

\* fns.remove(&fn_name) and fns.insert(fn_name, params_count)
FnsWithout(fns_, fn_name) == [n \in (DOMAIN fns_) \ {fn_name} |-> fns_[n]]
FnsWith(fns_, fn_name, params_count) ==
    [n \in (DOMAIN fns_) \cup {fn_name} |-> IF n = fn_name THEN params_count ELSE fns_[n]]

\* Statements i.. are statements arbitrary_statements can return after the
\* earlier ones left the variables vars_ and the functions fns_: an
\* assignment reads vars_ and calls fns_; a function body reads its
\* parameters and calls fns_ without the function's own name.
RECURSIVE arbitrary_statements(_, _, _, _)
arbitrary_statements(sts, i, vars_, fns_) ==
    IF i > Len(sts) THEN TRUE
    ELSE IF sts[i].t = "VarAssignment"
    THEN /\ arbitrary_name(sts[i].name)
         /\ arbitrary_expression(sts[i].e, vars_, fns_)
         /\ arbitrary_statements(sts, i + 1, vars_ \cup {sts[i].name}, fns_)
    ELSE /\ arbitrary_name(sts[i].name)
         /\ Distinct(sts[i].params)
         /\ \A k \in 1..Len(sts[i].params) : arbitrary_name(sts[i].params[k])
         /\ arbitrary_expression(sts[i].e, Range(sts[i].params), FnsWithout(fns_, sts[i].name))
         /\ arbitrary_statements(sts, i + 1, vars_,
                                 FnsWith(fns_, sts[i].name, Len(sts[i].params)))

\* prog is a Program arbitrary_program can return: different inputs, the
\* statements over them, and different outputs among the inputs and the
\* assigned variables.
arbitrary_program(prog) ==
    /\ Distinct(prog.inputs)
    /\ \A k \in 1..Len(prog.inputs) : arbitrary_name(prog.inputs[k])
    /\ arbitrary_statements(prog.statements, 1, Range(prog.inputs), <<>>)
    /\ Distinct(prog.outputs)
    /\ Range(prog.outputs) \subseteq ScopeAt(prog, Len(prog.statements) + 1)

----------------------------------------------------------------------------
(* Source texts handed to the parser *)

ChainOperands ==
    {I64(MaxInt), VarSubstitution(NameB), FnApplication(NameF, <<Operand(I64(-5))>>)}

\* operand (operator operand)*, written with one space around each operator
\* or with none.
Chains ==
    UNION {[kind : {"chain"},
            operands : [1..(k + 1) -> ChainOperands],
            operators : [1..k -> Operator],
            spaced : BOOLEAN] : k \in 0..MaxOperations}

\* 1 op 2 op 3 ...: the operands numbered by their position, every sequence
\* of operators, one space around each operator.
LongChains ==
    UNION {[kind : {"chain"},
            operands : {[i \in 1..(k + 1) |-> I64(i)]},
            operators : [1..k -> Operator],
            spaced : {TRUE}] : k \in 0..MaxChain}

RECURSIVE ChainTail(_, _, _)
ChainTail(operands, operators, gap) ==
    IF operators = <<>> THEN DisplayOperand(operands[1])
    ELSE DisplayOperand(operands[1]) \o gap \o DisplayOperator(operators[1]) \o gap
         \o ChainTail(Tail(operands), Tail(operators), gap)

ChainText(g, spaced) ==
    ChainTail(g.operands, g.operators, IF spaced THEN <<" ">> ELSE <<>>)

\* A name, optional whitespace, and what follows it.
LookTails ==
    {<<"(", "1", ")">>, <<"(", ")">>, <<"(", "a", ",", " ", "1", ")">>, <<"(", " ", "1", " ", ")">>,
     <<"(">>, <<"+", " ", "1">>, <<")">>, <<";">>, <<",", " ", "b">>, <<"{", " ", "_">>,
     <<"=", ">", " ", "1">>, <<"*", " ", "5">>, <<"-", " ", "1">>, <<"9">>, <<"=">>}

Lookaheads ==
    [kind : {"lookahead"},
     name : {NameA, NameB, NameF},
     gap : {<<>>, <<" ">>, <<" ", "\t">>},
     tail : LookTails]

\* Raw bytes.
ByteAlphabet == {"1", "-", "a", " ", "(", ")"}

TwentyDigits == [i \in 1..20 |-> "9"]

RawBytes ==
    {[kind |-> "bytes", bytes |-> b] :
        b \in UNION {[1..n -> ByteAlphabet] : n \in 1..MaxBytes} \cup {TwentyDigits}}

\* The arms of a written match: a `_` arm, or a matcher arm `m => v`.
DefaultArm(v) == [default |-> TRUE, m |-> 0, v |-> v]
MatcherArm(m, v) == [default |-> FALSE, m |-> m, v |-> v]

ArmChoices ==
    {DefaultArm(v) : v \in {7, 8}} \cup {MatcherArm(m, v) : m \in {5, 6}, v \in {1, 2}}

ArmLists ==
    [kind : {"arms"},
     with : {5, 6},
     arms : UNION {[1..n -> ArmChoices] : n \in 0..MaxArms},
     trailing : BOOLEAN]

Arrow == <<" ", "=", ">", " ">>

ArmText(arm) ==
    (IF arm.default THEN <<"_">> ELSE DisplayI64(arm.m)) \o Arrow \o DisplayI64(arm.v)

RECURSIVE JoinArms(_, _)
JoinArms(arms, i) ==
    IF i > Len(arms) THEN <<>>
    ELSE (IF i > 1 THEN <<",", " ">> ELSE <<>>) \o ArmText(arms[i]) \o JoinArms(arms, i + 1)

MatchText(g) ==
    <<"m", "a", "t", "c", "h", " ">> \o DisplayI64(g.with) \o <<" ", "{", " ">>
    \o JoinArms(g.arms, 1)
    \o (IF g.trailing THEN <<",">> ELSE <<>>) \o <<" ", "}">>

Body(g) ==
    CASE g.kind = "chain" -> ChainText(g, g.spaced)
      [] g.kind = "lookahead" -> g.name \o g.gap \o g.tail
      [] g.kind = "bytes" -> g.bytes
      [] g.kind = "arms" -> MatchText(g)

\* The text handed to the parser `e`: the body as the expression of the one
\* assignment of a program, the body before a `;`, or the body alone.
SourceOf(g, e) ==
    CASE e = "program" ->
            <<"i", "n", "p", "u", "t", "s", " ", "a", ";", "\n", "r", " ", "=", " ">>
            \o Body(g)
            \o <<";", "\n", "o", "u", "t", "p", "u", "t", "s", " ", "r", ";">>
      [] e = "expression" -> Body(g) \o <<";">>
      [] OTHER -> Body(g)

EntriesOf(g) ==
    CASE g.kind = "chain" -> {"expression", "program"}
      [] g.kind = "lookahead" -> {"operand"}
      [] g.kind = "bytes" -> {"expression", "program"}
      [] g.kind = "arms" -> {"match_", "program"}

----------------------------------------------------------------------------
(* The pipeline *)

None == [k |-> "None"]

\* No backend handle is held.  `released` lists the handles in the order they
\* were released; `next` is the statement the emission stands at; `misused`
\* records a step that used a handle which was not live.
NoHandles ==
    [ctx |-> "none", module |-> "none", builder |-> "none",
     released |-> <<>>, next |-> 0, misused |-> FALSE]

\* The parser named by `entry`, at the start of the text.
ParseEntry(e, s) == parser(e, s, 1)

InitAst ==
    /\ phase = "ast"
    /\ given \in {[kind |-> "ast", program |-> p] : p \in Programs}
    /\ entry = "program"
    /\ src = <<>>
    /\ parsed = None
    /\ rendered = <<>>
    /\ reparsed = None
    /\ testcase_inputs = <<>>
    /\ interpreted = None
    /\ compiled = None
    /\ emitted = None
    /\ llvm = NoHandles

\* format!("{}", program)
Render ==
    /\ phase = "ast"
    /\ src' = DisplayProgram(given.program)
    /\ phase' = "text"
    /\ UNCHANGED <<given, entry, parsed, rendered, reparsed, testcase_inputs, interpreted, compiled, emitted, llvm>>

Parse ==
    /\ phase = "text"
    /\ parsed' = ParseEntry(entry, src)
    /\ phase' = "parsed"
    /\ UNCHANGED <<given, entry, src, rendered, reparsed, testcase_inputs, interpreted, compiled, emitted, llvm>>

\* format!("{}", program) of the parsed Program.
Redisplay ==
    /\ phase = "parsed"
    /\ entry = "program"
    /\ IsDone(parsed)
    /\ rendered' = DisplayProgram(parsed.val)
    /\ phase' = "rendered"
    /\ UNCHANGED <<given, entry, src, parsed, reparsed, testcase_inputs, interpreted, compiled, emitted, llvm>>

Reparse ==
    /\ phase = "rendered"
    /\ reparsed' = ParseEntry(entry, rendered)
    /\ phase' = "reparsed"
    /\ UNCHANGED <<given, entry, src, parsed, rendered, testcase_inputs, interpreted, compiled, emitted, llvm>>

NextAst == Render \/ Parse \/ Redisplay \/ Reparse

SpecAst == InitAst /\ [][NextAst]_vars

InitText ==
    /\ phase = "text"
    /\ given \in Chains \cup LongChains \cup Lookaheads \cup RawBytes \cup ArmLists
    /\ entry \in EntriesOf(given)
    /\ src = SourceOf(given, entry)
    /\ parsed = None
    /\ rendered = <<>>
    /\ reparsed = None
    /\ testcase_inputs = <<>>
    /\ interpreted = None
    /\ compiled = None
    /\ emitted = None
    /\ llvm = NoHandles

NextText == Parse \/ Redisplay \/ Reparse

SpecText == InitText /\ [][NextText]_vars

----------------------------------------------------------------------------
(* The two execution paths *)

\* execute with the arity check moved behind the statements: the statements
\* run first, on an environment without the inputs.
execute_statements_first(prog, inputs_) ==
    IF ~ExecuteStatements(prog, 1, EmptyEnv, EmptyEnv, StackDepth).ok
    THEN ExecuteStatements(prog, 1, EmptyEnv, EmptyEnv, StackDepth)
    ELSE Err("ArityMismatch")

\* interpreter::execute(&program, inputs)
execute(prog, inputs_) ==
    IF Len(inputs_) # Len(prog.inputs) THEN Err("ArityMismatch")
    ELSE ExecuteStatements(prog, 1, Bind(prog.inputs, inputs_, EmptyEnv), EmptyEnv, StackDepth)

\* enum Error: the variant names the domain that raised the failure.
ParseError(e) == [ok |-> FALSE, domain |-> "ParseError", err |-> e]
InterpreterError(e) == [ok |-> FALSE, domain |-> "InterpreterError", err |-> e]
CompilerError(e) == [ok |-> FALSE, domain |-> "CompilerError", err |-> e]

\* A panic or a stack overflow: the thread unwinds or the process dies, and
\* no Error value is returned.
Abort(e) == [ok |-> FALSE, domain |-> "Abort", err |-> e]

\* parser::parse(s).map_err(Error::ParseError) on the parser's IResult r.
ParseResult(r) ==
    IF IsDone(r) THEN Ok(r.val)
    ELSE IF r.k = "Panic" THEN Abort("Panic")
    ELSE ParseError(r.k)

parse(s) == ParseResult(parser("program", s, 1))

\* interpreter::execute(..).map_err(Error::InterpreterError) on its result r.
InterpreterResult(r) ==
    IF r.ok THEN r
    ELSE IF r.err = "StackOverflow" THEN Abort("StackOverflow")
    ELSE InterpreterError(r.err)

\* The rest of interpret once the text is parsed: `program` is the result of
\* parse.
interpret_program(program_, inputs_) ==
    IF ~program_.ok THEN program_
    ELSE InterpreterResult(execute(program_.v, inputs_))

\* interpret(s, inputs)
interpret(s, inputs_) == interpret_program(parse(s), inputs_)

\* compiler::compile(&program, emit).map_err(Error::CompilerError): the
\* semantic checks, then the artifact (here the program it was built from).
compile_program(program_) ==
    IF ~program_.ok THEN program_
    ELSE IF ~Compiles(program_.v) THEN CompilerError("Unresolved")
    ELSE IF synthesise_statements(program_.v) = Panic THEN Abort("Panic")
    ELSE program_

\* compile with the compiler's result unwrapped, as mathc unwraps the result
\* of compile: a compiler failure unwinds.
Unwrapped(r) == IF r.ok \/ r.domain # "CompilerError" THEN r ELSE Abort("Panic")

compile_unwrap(s) == Unwrapped(compile_program(parse(s)))

\* compile(s, emit)
compile(s) == compile_program(parse(s))

\* What the build may make of a signed division that is undefined.
UBOutcomes ==
    {[trap |-> TRUE, v |-> 0]} \cup {[trap |-> FALSE, v |-> n] : n \in {0, -1}}

\* The executable built by mathc (which unwraps the result of compile) run
\* with the inputs as arguments.
run(binary, inputs_, ub) ==
    IF ~binary.ok THEN Err("CompileFailed")
    ELSE IF Len(inputs_) # Len(binary.v.inputs) THEN Err("BadArguments")
    ELSE RunStatements(binary.v, 1, Bind(binary.v.inputs, inputs_, EmptyEnv), StackDepth, ub)

\* compile_and_run_testcase: mathc on the text, then the executable with the
\* inputs as arguments; the lines of its standard output, or its failure.
compile_and_run(s, inputs_, ub) == run(compile(s), inputs_, ub)

\* stdout.lines().map(|s| s.parse().unwrap())
RECURSIVE ParseLines(_, _)
ParseLines(lines, i) ==
    IF i > Len(lines) THEN <<>>
    ELSE <<ParseI64(lines[i]).n>> \o ParseLines(lines, i + 1)

InputValues == {0, 2}

InputVectors(n) == [1..n -> InputValues]

InitExec ==
    /\ given \in {[kind |-> "ast", program |-> p] : p \in Programs}
                 \cup ArmLists
    /\ entry = "program"
    /\ phase = (IF given.kind = "ast" THEN "ast" ELSE "text")
    /\ src = (IF given.kind = "ast" THEN <<>> ELSE SourceOf(given, entry))
    /\ testcase_inputs \in InputVectors(IF given.kind = "ast" THEN Len(given.program.inputs) ELSE 1)
    /\ parsed = None
    /\ rendered = <<>>
    /\ reparsed = None
    /\ interpreted = None
    /\ compiled = None
    /\ emitted = None
    /\ llvm = NoHandles

Interpret ==
    /\ phase = "text"
    /\ parsed' = parser("program", src, 1)
    /\ interpreted' = interpret(src, testcase_inputs)
    /\ phase' = "interpreted"
    /\ UNCHANGED <<given, entry, src, rendered, reparsed, testcase_inputs, compiled, emitted, llvm>>

CompileAndRun ==
    /\ phase = "interpreted"
    /\ emitted' = compile(src)
    /\ \E ub \in UBOutcomes : compiled' = compile_and_run(src, testcase_inputs, ub)
    /\ phase' = "ran"
    /\ UNCHANGED <<given, entry, src, parsed, rendered, reparsed, testcase_inputs, interpreted, llvm>>

NextExec == Render \/ Interpret \/ CompileAndRun

SpecExec == InitExec /\ [][NextExec]_vars

----------------------------------------------------------------------------
(* Programs about names, scopes and statement order *)

NameG == <<"g">>
NameP == <<"p">>
NameX == <<"x">>
NameY == <<"y">>

Lit(n) == Operand(I64(n))
Var(n) == Operand(VarSubstitution(n))
Call(fn, args) == Operand(FnApplication(fn, args))

\* Every sequence of at most n statements of a pool.
SequencesOf(pool, n) == UNION {[1..k -> pool] : k \in 0..n}

\* f() = 1;  f() = 2;  g() = f();  r = f();  r = g();
FnPool ==
    {FnDefinition(NameF, <<>>, Lit(1)),
     FnDefinition(NameF, <<>>, Lit(2)),
     FnDefinition(NameG, <<>>, Call(NameF, <<>>)),
     VarAssignment(NameR, Call(NameF, <<>>)),
     VarAssignment(NameR, Call(NameG, <<>>))}

FnPrograms ==
    {Program(<<>>, st, <<NameR>>) : st \in SequencesOf(FnPool, MaxStatements)}

\* x = a;  x = x + 1;  y = x;  x = y * 2;
VarPool ==
    {VarAssignment(NameX, Var(NameA)),
     VarAssignment(NameX, Operation("Add", Var(NameX), Lit(1))),
     VarAssignment(NameY, Var(NameX)),
     VarAssignment(NameX, Operation("Multiply", Var(NameY), Lit(2)))}

VarPrograms ==
    {Program(<<NameA>>, st, outs) :
        st \in SequencesOf(VarPool, MaxStatements),
        outs \in {<<NameX, NameA>>, <<NameA, NameY, NameX>>}}

\* inputs a; b_c = 1; f(param) = body; r = f(arg); outputs r, a, b_c;
\* the body reads the parameter, the input, or the assigned variable.
ScopePrograms ==
    {Program(<<NameA>>,
             <<VarAssignment(NameB, Lit(1)),
               FnDefinition(NameF, <<param>>, body),
               VarAssignment(NameR, Call(NameF, <<arg>>))>>,
             <<NameR, NameA, NameB>>) :
        param \in {NameP, NameA, NameB},
        body \in {Var(n) : n \in {NameP, NameA, NameB}}
                \cup {Operation("Add", Var(n), Lit(1)) : n \in {NameP, NameA, NameB}},
        arg \in {Lit(5), Var(NameA), Var(NameB)}}

\* fn(a) = match a { 0 => base, _ => other(a - 1) }
Alternate(fn, base, other) ==
    FnDefinition(fn, <<NameA>>,
        Operand(MatchOperand(Match(
            Var(NameA),
            <<<<MatcherValue(Lit(0)), Lit(base)>>>>,
            Call(other, <<Operation("Subtract", Var(NameA), Lit(1))>>)))))

\* Two functions that call each other, in either order, entered at either.
MutualPrograms ==
    {Program(<<NameA>>, defs \o <<VarAssignment(NameR, Call(first, <<Var(NameA)>>))>>,
             <<NameR>>) :
        defs \in {<<Alternate(NameF, 1, NameG), Alternate(NameG, 0, NameF)>>,
                  <<Alternate(NameG, 0, NameF), Alternate(NameF, 1, NameG)>>},
        first \in {NameF, NameG}}

\* inputs a; f(p) = p; r = e; outputs out;  where e reads a name without a
\* value, calls a function that is not defined, or calls f with zero, one or
\* two arguments.
ArityPrograms ==
    {Program(<<NameA>>,
             <<FnDefinition(NameF, <<NameP>>, Var(NameP)), VarAssignment(NameR, e)>>,
             <<out>>) :
        e \in {Call(NameF, args) : args \in {<<>>, <<Var(NameA)>>, <<Var(NameA), Lit(1)>>,
                                             <<Var(NameX)>>}}
              \cup {Var(NameX), Call(NameG, <<Var(NameA)>>),
                    Operation("Add", Lit(1), Operand(Group(Var(NameX))))},
        out \in {NameR, NameY}}

Scenarios ==
    FnPrograms \cup VarPrograms \cup ScopePrograms \cup MutualPrograms \cup ArityPrograms

\* Input vectors of every length up to n.
InputVectorsUpTo(n) == UNION {InputVectors(k) : k \in 0..n}

\* A scenario program or a raw text, with an input vector of the declared
\* length or of another one.
InitRun ==
    /\ given \in {[kind |-> "ast", program |-> p] : p \in Scenarios} \cup RawBytes
    /\ entry = "program"
    /\ phase = (IF given.kind = "ast" THEN "ast" ELSE "text")
    /\ src = (IF given.kind = "ast" THEN <<>> ELSE SourceOf(given, entry))
    /\ testcase_inputs \in InputVectorsUpTo(
            IF given.kind = "ast" /\ given.program \in ScopePrograms \cup MutualPrograms
            THEN 2 ELSE 1)
    /\ parsed = None
    /\ rendered = <<>>
    /\ reparsed = None
    /\ interpreted = None
    /\ compiled = None
    /\ emitted = None
    /\ llvm = NoHandles

SpecRun == InitRun /\ [][NextExec]_vars

----------------------------------------------------------------------------
(* One operator on two i64 values, on both paths *)

\* Operands around 0 and around both ends of the i64 range, 7 and -7, 2^32
\* and its negation, and two operands with every byte different.
Words ==
    {ToWord(n) : n \in (-MaxOffset)..MaxOffset}
    \cup {wrapping_add(I64Min, ToWord(n)) : n \in 0..MaxOffset}
    \cup {wrapping_sub(I64Max, ToWord(n)) : n \in 0..MaxOffset}
    \cup {ToWord(7), ToWord(-7)}
    \cup {<<0, 0, 0, 0, 1, 0, 0, 0>>, <<0, 0, 0, 0, 255, 255, 255, 255>>}
    \cup {<<239, 205, 171, 137, 103, 69, 35, 1>>, <<16, 50, 84, 118, 152, 186, 220, 254>>}

InitArith ==
    /\ phase = "operands"
    /\ given \in [kind : {"operation"}, op : Operator, lhs : Words, rhs : Words]
    /\ entry = "operation"
    /\ src = <<>>
    /\ parsed = None
    /\ rendered = <<>>
    /\ reparsed = None
    /\ testcase_inputs = <<>>
    /\ interpreted = None
    /\ compiled = None
    /\ emitted = None
    /\ llvm = NoHandles

\* The interpreter applies the operator to the two values.
ApplyOperation ==
    /\ phase = "operands"
    /\ interpreted' = Apply(given.op, given.lhs, given.rhs)
    /\ phase' = "applied"
    /\ UNCHANGED <<given, entry, src, parsed, rendered, reparsed, testcase_inputs, compiled, emitted, llvm>>

\* The instruction built by synthesise_operation runs on the two values.
RunOperation ==
    /\ phase = "applied"
    /\ \E ub \in UBOutcomes :
          compiled' = synthesise_operation(given.op, given.lhs, given.rhs, ub)
    /\ phase' = "built"
    /\ UNCHANGED <<given, entry, src, parsed, rendered, reparsed, testcase_inputs, interpreted, emitted, llvm>>

NextArith == ApplyOperation \/ RunOperation

SpecArith == InitArith /\ [][NextArith]_vars

----------------------------------------------------------------------------
(* One compilation, step by step: the backend handles of spec section 5 *)

Handles == {"ctx", "module", "builder"}

\* A step that uses the handles hs: using one that is not live is recorded.
Use(l, hs) == [l EXCEPT !.misused = @ \/ \E h \in hs : l[h] # "live"]

Acquire(l, h) == [l EXCEPT ![h] = "live"]

\* Releasing a handle uses it one last time.
Release(l, h) ==
    [Use(l, {h}) EXCEPT ![h] = "released", !.released = Append(@, h)]

\* An error during emission returns at once, past the releases.
AfterEmissionReturn(failed) == IF failed THEN "returned" ELSE "release_builder"

\* Where the compilation goes on after the emission ended, with or without an
\* error: to the releases.
AfterEmission(failed) == "release_builder"

\* The programs compiled step by step.
CompiledPrograms == ArityPrograms \cup ScopePrograms \cup MutualPrograms

InitCompile ==
    /\ phase = "compile"
    /\ given \in {[kind |-> "ast", program |-> p] : p \in CompiledPrograms}
    /\ entry = "program"
    /\ src = <<>>
    /\ parsed = None
    /\ rendered = <<>>
    /\ reparsed = None
    /\ testcase_inputs = <<>>
    /\ interpreted = None
    /\ compiled = None
    /\ emitted = None
    /\ llvm = NoHandles

\* The semantic checks, ahead of the backend: a program that fails them is
\* refused with nothing acquired.
Check ==
    /\ phase = "compile"
    /\ IF Compiles(given.program)
       THEN phase' = "checked" /\ emitted' = emitted
       ELSE phase' = "returned" /\ emitted' = CompilerError("Unresolved")
    /\ UNCHANGED <<given, entry, src, parsed, rendered, reparsed, testcase_inputs,
                   interpreted, compiled, llvm>>

ContextCreate ==
    /\ phase = "checked"
    /\ llvm' = Acquire(llvm, "ctx")
    /\ phase' = "context"
    /\ UNCHANGED <<given, entry, src, parsed, rendered, reparsed, testcase_inputs,
                   interpreted, compiled, emitted>>

\* The module and the builder are made in the context; the backend may fail
\* to allocate the module.
ModuleCreate ==
    /\ phase = "context"
    /\ \E failed \in BOOLEAN :
          IF failed
          THEN /\ llvm' = Use(llvm, {"ctx"})
               /\ emitted' = CompilerError("Backend")
               /\ phase' = AfterEmission(TRUE)
          ELSE /\ llvm' = [Acquire(Acquire(Use(llvm, {"ctx"}), "module"), "builder")
                              EXCEPT !.next = 1]
               /\ emitted' = emitted
               /\ phase' = "emitting"
    /\ UNCHANGED <<given, entry, src, parsed, rendered, reparsed, testcase_inputs,
                   interpreted, compiled>>

\* One statement is lowered: ExpressionSynthesiser::synthesise works through
\* llvm_ctx and llvm_builder, inside the module.
Emit ==
    /\ phase = "emitting"
    /\ llvm.next <= Len(given.program.statements)
    /\ \E failed \in BOOLEAN :
          IF failed
          THEN /\ llvm' = Use(llvm, Handles)
               /\ emitted' = CompilerError("Backend")
               /\ phase' = AfterEmission(TRUE)
          ELSE /\ llvm' = [Use(llvm, Handles) EXCEPT !.next = @ + 1]
               /\ emitted' = emitted
               /\ phase' = phase
    /\ UNCHANGED <<given, entry, src, parsed, rendered, reparsed, testcase_inputs,
                   interpreted, compiled>>

\* The module is verified, printed and, for Emit::Binary, linked and written:
\* the backend may fail to link or to write the file.
Finalize ==
    /\ phase = "emitting"
    /\ llvm.next > Len(given.program.statements)
    /\ \E failed \in BOOLEAN :
          /\ llvm' = Use(llvm, {"ctx", "module"})
          /\ emitted' = (IF failed THEN CompilerError("Backend") ELSE Ok(given.program))
          /\ phase' = AfterEmission(failed)
    /\ UNCHANGED <<given, entry, src, parsed, rendered, reparsed, testcase_inputs,
                   interpreted, compiled>>

DisposeBuilder ==
    /\ phase = "release_builder"
    /\ llvm' = (IF llvm.builder = "live" THEN Release(llvm, "builder") ELSE llvm)
    /\ phase' = "release_module"
    /\ UNCHANGED <<given, entry, src, parsed, rendered, reparsed, testcase_inputs,
                   interpreted, compiled, emitted>>

DisposeModule ==
    /\ phase = "release_module"
    /\ llvm' = (IF llvm.module = "live" THEN Release(llvm, "module") ELSE llvm)
    /\ phase' = "release_context"
    /\ UNCHANGED <<given, entry, src, parsed, rendered, reparsed, testcase_inputs,
                   interpreted, compiled, emitted>>

ContextDispose ==
    /\ phase = "release_context"
    /\ llvm' = Release(llvm, "ctx")
    /\ phase' = "returned"
    /\ UNCHANGED <<given, entry, src, parsed, rendered, reparsed, testcase_inputs,
                   interpreted, compiled, emitted>>

NextCompile ==
    \/ Check
    \/ ContextCreate
    \/ ModuleCreate
    \/ Emit
    \/ Finalize
    \/ DisposeBuilder
    \/ DisposeModule
    \/ ContextDispose

\* A compilation is one call stack: it takes its next step until it returns.
SpecCompile == InitCompile /\ [][NextCompile]_vars /\ WF_vars(NextCompile)

----------------------------------------------------------------------------
(* Precedence normal form *)

RECURSIVE NormalExpression(_)
RECURSIVE NormalOperand(_)

\* No direct child Operation of strictly lower precedence, and no direct right
\* child Operation of equal precedence, at any depth.
NormalExpression(e) ==
    IF e.t = "Operand" THEN NormalOperand(e.o)
    ELSE /\ IsOperation(e.l) => OperatorOrd(e.l.op) >= OperatorOrd(e.op)
         /\ IsOperation(e.r) => OperatorOrd(e.r.op) > OperatorOrd(e.op)
         /\ NormalExpression(e.l)
         /\ NormalExpression(e.r)

NormalOperand(o) ==
    CASE o.t = "Group" -> NormalExpression(o.e)
      [] o.t = "FnApplication" -> \A i \in 1..Len(o.args) : NormalExpression(o.args[i])
      [] o.t = "Match" ->
            /\ NormalExpression(o.m.with)
            /\ NormalExpression(o.m.default)
            /\ \A i \in 1..Len(o.m.clauses) :
                  /\ NormalExpression(o.m.clauses[i][1].e)
                  /\ NormalExpression(o.m.clauses[i][2])
      [] OTHER -> TRUE

NormalProgram(p) ==
    \A i \in 1..Len(p.statements) : NormalExpression(p.statements[i].e)

----------------------------------------------------------------------------
(* Round trip from a Program *)

\* C2 as stated: for every Program, parsing its Display yields the Program.
C2_RoundTripEveryAst ==
    (phase = "parsed" /\ given.kind = "ast")
        => (IsDone(parsed) /\ parsed.val = given.program)

\* C2, amended: parsing the Display of a Program whose expressions are in
\* precedence normal form yields a Program structurally equal to it.
C2_RoundTripNormalForm ==
    (phase = "parsed" /\ given.kind = "ast" /\ NormalProgram(given.program))
        => (IsDone(parsed) /\ parsed.val = given.program)

\* A parsed normal-form Program with a two-level Operation, a Group and a Match.
C2_Witness ==
    /\ phase = "parsed"
    /\ given.kind = "ast"
    /\ NormalProgram(given.program)
    /\ IsDone(parsed)
    /\ parsed.val = given.program
    /\ \E i \in 1..Len(given.program.statements) :
          LET e == given.program.statements[i].e IN
          /\ IsOperation(e)
          /\ IsOperation(e.l)
          /\ e.l.op = e.op

----------------------------------------------------------------------------
(* Interpreter and compiled executable *)

\* The decimal lines of the executable are the interpreter's output vector,
\* or both runs fail.
SameObservation ==
    \/ interpreted.ok /\ compiled.ok /\ ParseLines(compiled.v, 1) = interpreted.v
    \/ ~interpreted.ok /\ ~compiled.ok

\* C1 as stated: for every Program that parses and whose names all resolve,
\* and every input vector of the declared length, the interpreter's outputs
\* equal the lines printed by the compiled executable, or both fail.
C1_InterpreterEqualsCompiled ==
    (phase = "ran" /\ given.kind = "ast" /\ IsDone(parsed) /\ Compiles(parsed.val))
        => SameObservation

\* A run of a program with a division whose two paths agree.
C1_Witness ==
    /\ phase = "ran"
    /\ given.kind = "ast"
    /\ interpreted.ok
    /\ compiled.ok
    /\ ParseLines(compiled.v, 1) = interpreted.v
    /\ Len(interpreted.v) = 1
    /\ \E i \in 1..Len(given.program.statements) :
          /\ IsOperation(given.program.statements[i].e)
          /\ given.program.statements[i].e.op = "Divide"

----------------------------------------------------------------------------
(* Round trip from a source text *)

\* C3: the rendering of a parsed program parses, and to the same Program.
C3_ReparseSame ==
    phase = "reparsed" => (IsDone(reparsed) /\ reparsed.val = parsed.val)

\* A match written with its default arm first, rendered differently from the
\* way it was written, and reparsed to the same Program.
C3_Witness ==
    /\ phase = "reparsed"
    /\ given.kind = "arms"
    /\ Len(given.arms) >= 2
    /\ given.arms[1].default
    /\ rendered # src
    /\ IsDone(reparsed)
    /\ reparsed.val = parsed.val

----------------------------------------------------------------------------
(* Precedence *)

\* The order the claim states: Subtract < Add < Divide < Multiply.
ClaimedRank(o) ==
    CASE o = "Subtract" -> 1
      [] o = "Add" -> 2
      [] o = "Divide" -> 3
      [] o = "Multiply" -> 4

\* The expression the parser returned, alone or as the one assignment.
ParsedExpression ==
    IF entry = "program" THEN parsed.val.statements[1].e ELSE parsed.val

\* C4: `x op1 y op2 z` parses to Operation(op2, Operation(op1, x, y), z) when
\* op2 ranks lower than or equal to op1, else to
\* Operation(op1, x, Operation(op2, y, z)).
C4_TwoOperatorShape ==
    (phase = "parsed" /\ given.kind = "chain" /\ given.spaced
     /\ Len(given.operators) = 2)
        => LET x == Operand(given.operands[1])
               y == Operand(given.operands[2])
               z == Operand(given.operands[3])
               op1 == given.operators[1]
               op2 == given.operators[2] IN
           /\ IsDone(parsed)
           /\ ParsedExpression =
                 IF ClaimedRank(op2) <= ClaimedRank(op1)
                 THEN Operation(op2, Operation(op1, x, y), z)
                 ELSE Operation(op1, x, Operation(op2, y, z))

\* `f(-5) + b_c * 12` parsed to Add(f(-5), Multiply(b_c, 12)).
C4_Witness ==
    /\ phase = "parsed"
    /\ given.kind = "chain"
    /\ given.spaced
    /\ entry = "expression"
    /\ given.operators = <<"Add", "Multiply">>
    /\ IsDone(parsed)
    /\ parsed.val = Operation("Add", Operand(given.operands[1]),
                              Operation("Multiply", Operand(given.operands[2]),
                                        Operand(given.operands[3])))
    /\ given.operands[1].t = "FnApplication"

----------------------------------------------------------------------------
(* The arms of a match *)

DefaultArms(g) == {i \in 1..Len(g.arms) : g.arms[i].default}

\* The Match the parser returned, alone or in the one assignment.
ParsedMatch ==
    IF entry = "program" THEN parsed.val.statements[1].e.o.m ELSE parsed.val

\* The matcher arms of the text in the order they were written, as clauses.
RECURSIVE WrittenClauses(_, _)
WrittenClauses(arms, i) ==
    IF i > Len(arms) THEN <<>>
    ELSE (IF arms[i].default THEN <<>>
          ELSE <<<<MatcherValue(Operand(I64(arms[i].m))), Operand(I64(arms[i].v))>>>>)
         \o WrittenClauses(arms, i + 1)

\* C5: a match whose arm list has no `_` arm, or more than one, is a parse
\* failure; no Match is returned.
C5_ExactlyOneDefault ==
    (phase = "parsed" /\ given.kind = "arms" /\ Cardinality(DefaultArms(given)) # 1)
        => parsed.k = "Error"

\* A match with two `_` arms and a matcher arm, refused.
C5_Witness ==
    /\ phase = "parsed"
    /\ given.kind = "arms"
    /\ Cardinality(DefaultArms(given)) = 2
    /\ Len(given.arms) = 3
    /\ parsed.k = "Error"

\* C6 as stated: a match in which a matcher arm follows the `_` arm is a
\* parse failure.
C6_DefaultMustBeLast ==
    (phase = "parsed" /\ given.kind = "arms"
     /\ \E i \in 1..Len(given.arms), j \in 1..Len(given.arms) :
           i < j /\ given.arms[i].default /\ ~given.arms[j].default)
        => ~IsDone(parsed)

\* C6, amended: a match with exactly one `_` arm parses wherever that arm
\* stands; its default is that arm's expression and its clauses are the
\* matcher arms in the order written.
C6_DefaultAnywhere ==
    (phase = "parsed" /\ given.kind = "arms" /\ Cardinality(DefaultArms(given)) = 1)
        => /\ IsDone(parsed)
           /\ ParsedMatch.default =
                 Operand(I64(given.arms[CHOOSE i \in DefaultArms(given) : TRUE].v))
           /\ ParsedMatch.clauses = WrittenClauses(given.arms, 1)

\* A match whose `_` arm is followed by a matcher arm, accepted.
C6_Witness ==
    /\ phase = "parsed"
    /\ given.kind = "arms"
    /\ Len(given.arms) = 2
    /\ given.arms[1].default
    /\ ~given.arms[2].default
    /\ IsDone(parsed)
    /\ ParsedMatch.clauses = WrittenClauses(given.arms, 1)

\* The value of the first written matcher arm equal to `with`, else of the
\* default arm.
FirstMatch(g) ==
    LET hits == {i \in 1..Len(g.arms) : ~g.arms[i].default /\ g.arms[i].m = g.with} IN
    IF hits = {} THEN g.arms[CHOOSE i \in DefaultArms(g) : TRUE].v
    ELSE g.arms[CHOOSE i \in hits : \A j \in hits : i <= j].v

\* C7: a Match evaluates to the expression of the first written matcher equal
\* to `with`, else to the default; the parsed clauses keep the written order.
C7_FirstMatchWins ==
    (phase = "interpreted" /\ given.kind = "arms"
     /\ Cardinality(DefaultArms(given)) = 1)
        => /\ interpreted = Ok(<<FirstMatch(given)>>)
           /\ ParsedMatch.clauses = WrittenClauses(given.arms, 1)

\* Two matcher arms both equal to `with`, with different values: the first won.
C7_Witness ==
    /\ phase = "interpreted"
    /\ given.kind = "arms"
    /\ Len(given.arms) = 3
    /\ ~given.arms[1].default /\ given.arms[1].m = given.with
    /\ ~given.arms[2].default /\ given.arms[2].m = given.with
    /\ given.arms[1].v # given.arms[2].v
    /\ given.arms[3].default
    /\ interpreted = Ok(<<given.arms[1].v>>)

----------------------------------------------------------------------------
(* A name in operand position *)

\* The tail is a whole argument list.
ClosedCall(tail) == tail[1] = "(" /\ tail[Len(tail)] = ")"

\* C8: a name whose next non-whitespace byte is `(` is never a variable
\* reference and is the function application when its argument list is whole;
\* any other next byte gives the variable reference, and the rest of the
\* input starts at that byte.
C8_NameLookahead ==
    (phase = "parsed" /\ given.kind = "lookahead")
        => IF given.tail[1] = "("
           THEN /\ IsDone(parsed) => (parsed.val.t = "FnApplication"
                                      /\ parsed.val.name = given.name)
                /\ ClosedCall(given.tail) => (IsDone(parsed) /\ parsed.pos = Len(src) + 1)
           ELSE /\ IsDone(parsed)
                /\ parsed.val = VarSubstitution(given.name)
                /\ parsed.pos = Len(given.name) + Len(given.gap) + 1
                /\ src[parsed.pos] = given.tail[1]

\* `f (a, 1)`, whitespace before the parenthesis, parsed as the application.
C8_Witness ==
    /\ phase = "parsed"
    /\ given.kind = "lookahead"
    /\ given.gap # <<>>
    /\ given.tail[1] = "("
    /\ IsDone(parsed)
    /\ parsed.val.t = "FnApplication"
    /\ Len(parsed.val.args) = 2

----------------------------------------------------------------------------
(* Whitespace and totality *)

\* The same operands and operators written with a space around each operator.
SpacedParse == ParseEntry(entry, SourceOf([given EXCEPT !.spaced = TRUE], entry))

\* C9 as stated: an operand-operator sequence written without whitespace
\* parses to the AST of the same sequence written with whitespace.
C9_WhitespaceInsignificant ==
    (phase = "parsed" /\ given.kind = "chain")
        => (parsed.k = SpacedParse.k /\ (IsDone(parsed) => parsed.val = SpacedParse.val))

\* C10 as stated: the parser returns a value or a parse error on every byte
\* string, and never ends abruptly.
C10_ParsingTotal ==
    (phase = "parsed" /\ given.kind = "bytes") => parsed.k # "Panic"

----------------------------------------------------------------------------
(* The arity of the input vector *)

\* C11: execute with an input vector whose length is not the number of
\* declared inputs returns the arity error, whatever the statements and the
\* outputs of the program would do: nothing of them is evaluated first.
C11_ArityErrorBeforeEvaluation ==
    (/\ phase \in {"interpreted", "ran"}
     /\ IsDone(parsed)
     /\ Len(testcase_inputs) # Len(parsed.val.inputs))
        => interpreted = InterpreterError("ArityMismatch")

\* An arity error for a program whose first statement, had it been
\* evaluated, fails with an unresolved function.
C11_Witness ==
    /\ phase = "interpreted"
    /\ given.kind = "ast"
    /\ given.program.inputs = <<>>
    /\ Len(testcase_inputs) = 1
    /\ interpreted = InterpreterError("ArityMismatch")
    /\ Len(given.program.statements) > 0
    /\ ~execute(given.program, <<>>).ok
    /\ execute(given.program, <<>>).err = "UnresolvedFunction"

----------------------------------------------------------------------------
(* The value of a variable, read off the program text *)

\* The last VarAssignment to `n` among statements 1..k, 0 when there is none.
RECURSIVE LastAssignment(_, _, _)
LastAssignment(prog, n, k) ==
    IF k = 0 THEN 0
    ELSE IF prog.statements[k].t = "VarAssignment" /\ prog.statements[k].name = n THEN k
    ELSE LastAssignment(prog, n, k - 1)

\* The last position of `n` among the declared inputs, 0 when it is none.
RECURSIVE LastInput(_, _, _)
LastInput(prog, n, k) ==
    IF k = 0 THEN 0
    ELSE IF prog.inputs[k] = n THEN k
    ELSE LastInput(prog, n, k - 1)

\* The value of an expression of literals, variables and + - * read after
\* statements 1..k: a variable is what its last assignment among them
\* computed from the statements before it, or its input value if it has
\* none.  In the model checker's own integers.
RECURSIVE ValueAfter(_, _, _, _)
ValueAfter(prog, inputs_, e, k) ==
    IF IsOperation(e)
    THEN IF ValueAfter(prog, inputs_, e.l, k).ok /\ ValueAfter(prog, inputs_, e.r, k).ok
         THEN Ok(CASE e.op = "Add" ->
                        ValueAfter(prog, inputs_, e.l, k).v + ValueAfter(prog, inputs_, e.r, k).v
                   [] e.op = "Subtract" ->
                        ValueAfter(prog, inputs_, e.l, k).v - ValueAfter(prog, inputs_, e.r, k).v
                   [] e.op = "Multiply" ->
                        ValueAfter(prog, inputs_, e.l, k).v * ValueAfter(prog, inputs_, e.r, k).v)
         ELSE Err("Undefined")
    ELSE IF e.o.t = "I64" THEN Ok(e.o.n)
    ELSE IF LastAssignment(prog, e.o.name, k) # 0
         THEN ValueAfter(prog, inputs_, prog.statements[LastAssignment(prog, e.o.name, k)].e,
                         LastAssignment(prog, e.o.name, k) - 1)
    ELSE IF LastInput(prog, e.o.name, Len(prog.inputs)) # 0
         THEN Ok(inputs_[LastInput(prog, e.o.name, Len(prog.inputs))])
    ELSE Err("Undefined")

\* The final value of each output name, in the declared order.
ExpectedOutputs(prog, inputs_) ==
    [i \in 1..Len(prog.outputs) |->
        ValueAfter(prog, inputs_, Var(prog.outputs[i]), Len(prog.statements)).v]

----------------------------------------------------------------------------
(* The outputs of a run *)

\* C12: a successful execution returns one value per declared output, the
\* i-th the final value of the i-th output name, in the interpreter's output
\* vector and in the lines printed by the compiled executable.
C12_OutputsInDeclaredOrder ==
    (phase = "ran" /\ given.kind = "ast" /\ IsDone(parsed))
        => /\ interpreted.ok => Len(interpreted.v) = Len(parsed.val.outputs)
           /\ compiled.ok => Len(compiled.v) = Len(parsed.val.outputs)
           /\ (given.program \in VarPrograms /\ interpreted.ok)
                 => interpreted.v = ExpectedOutputs(parsed.val, testcase_inputs)
           /\ (given.program \in VarPrograms /\ compiled.ok)
                 => ParseLines(compiled.v, 1) = ExpectedOutputs(parsed.val, testcase_inputs)

\* Three outputs with three different values, the first an input, the last
\* a variable assigned more than once.
C12_Witness ==
    /\ phase = "ran"
    /\ given.kind = "ast"
    /\ given.program \in VarPrograms
    /\ interpreted.ok
    /\ compiled.ok
    /\ Len(interpreted.v) = 3
    /\ interpreted.v[1] < interpreted.v[2]
    /\ interpreted.v[2] < interpreted.v[3]
    /\ ParseLines(compiled.v, 1) = interpreted.v
    /\ LastAssignment(given.program, NameX,
                      LastAssignment(given.program, NameX, Len(given.program.statements)) - 1) # 0

----------------------------------------------------------------------------
(* Division by zero *)

\* The program is one assignment `r = l / d` of two literals or variables
\* and d is 0 on this input vector.
DividesByZero(prog, inputs_) ==
    /\ Len(prog.statements) = 1
    /\ prog.statements[1].t = "VarAssignment"
    /\ IsOperation(prog.statements[1].e)
    /\ prog.statements[1].e.op = "Divide"
    /\ ~IsOperation(prog.statements[1].e.l)
    /\ ~IsOperation(prog.statements[1].e.r)
    /\ prog.statements[1].e.l.o.t \in {"I64", "VarSubstitution"}
    /\ prog.statements[1].e.r.o.t \in {"I64", "VarSubstitution"}
    /\ ValueAfter(prog, inputs_, prog.statements[1].e.l, 0).ok
    /\ ValueAfter(prog, inputs_, prog.statements[1].e.r, 0) = Ok(0)

\* C13 as stated: a Divide whose right operand is 0 makes interpretation fail
\* with the division-by-zero error value and makes the compiled executable
\* fail; neither path returns an output.
C13_DivideByZeroFailsBothPaths ==
    (/\ phase = "ran"
     /\ given.kind = "ast"
     /\ IsDone(parsed)
     /\ DividesByZero(parsed.val, testcase_inputs))
        => /\ interpreted = InterpreterError("DivideByZero")
           /\ ~compiled.ok

----------------------------------------------------------------------------
(* The domain of a reported failure *)

\* C14 as stated: a parse failure is reported as ParseError by interpret and
\* by compile, an interpreter failure as InterpreterError, a compiler failure
\* as CompilerError, and no failure under the variant of another domain.
C14_FailuresNameTheirDomain ==
    phase = "ran"
        => /\ ~IsDone(parsed)
                => /\ ~interpreted.ok /\ interpreted.domain = "ParseError"
                   /\ ~emitted.ok /\ emitted.domain = "ParseError"
           /\ (IsDone(parsed) /\ ~interpreted.ok)
                => interpreted.domain = "InterpreterError"
           /\ (IsDone(parsed) /\ ~emitted.ok)
                => emitted.domain = "CompilerError"

----------------------------------------------------------------------------
(* The scope of a function body *)

\* The variable names read by an expression of literals, variables and
\* operators.
RECURSIVE VarsOf(_)
VarsOf(e) ==
    IF IsOperation(e) THEN VarsOf(e.l) \cup VarsOf(e.r)
    ELSE IF e.o.t = "VarSubstitution" THEN {e.o.name}
    ELSE {}

\* C15: in `b_c = 1; f(param) = body; r = f(arg); outputs r, a, b_c` a body
\* that reads a name other than the parameter, be it the input or the
\* assigned variable, is an unresolved-name error on both paths; a body that
\* reads the parameter computes from the argument value, and the caller's
\* a and b_c are what they were before the call, also when the parameter
\* bears one of their names.
C15_BodyReadsOnlyParameters ==
    (/\ phase = "ran"
     /\ given.kind = "ast"
     /\ given.program \in ScopePrograms
     /\ IsDone(parsed)
     /\ Len(testcase_inputs) = 1)
        => IF VarsOf(parsed.val.statements[2].e) \subseteq Range(parsed.val.statements[2].params)
           THEN /\ interpreted =
                     Ok(<<ValueAfter(parsed.val, testcase_inputs,
                                     parsed.val.statements[3].e.o.args[1], 2).v
                            + (IF IsOperation(parsed.val.statements[2].e) THEN 1 ELSE 0),
                          testcase_inputs[1],
                          1>>)
                /\ compiled.ok
                /\ ParseLines(compiled.v, 1) = interpreted.v
           ELSE /\ interpreted = InterpreterError("UnresolvedVariable")
                /\ ~emitted.ok
                /\ ~compiled.ok

\* A body that reads the program input `a`, which is not its parameter, in a
\* call whose caller has `a` bound.
C15_Witness ==
    /\ phase = "ran"
    /\ given.kind = "ast"
    /\ given.program \in ScopePrograms
    /\ testcase_inputs = <<2>>
    /\ given.program.statements[2].params = <<NameP>>
    /\ given.program.statements[2].e = Var(NameA)
    /\ interpreted = InterpreterError("UnresolvedVariable")
    /\ ~compiled.ok

----------------------------------------------------------------------------
(* Which definition a call resolves to *)

\* In a program of the statements f() = 1, f() = 2, g() = f(), r = f() and
\* r = g(), the definition of f whose body gives the value of the call of
\* statement k, 0 when the call does not resolve:

\* by textual position: the definition of f before the call site, which for
\* the call in the body of g is the position of (the visible) g;
TextualDefinition(prog, k) ==
    IF prog.statements[k].e.o.name = NameF THEN FnVisibleAt(prog, NameF, k - 1)
    ELSE FnVisibleAt(prog, NameF, FnVisibleAt(prog, NameG, k - 1))

\* in the interpreter: the definition of f in the function table when the
\* call is evaluated, which for the call in the body of g is when statement
\* k runs;
InterpreterDefinition(prog, k) ==
    IF prog.statements[k].e.o.name = NameF THEN FnVisibleAt(prog, NameF, k - 1)
    ELSE IF FnVisibleAt(prog, NameG, k - 1) = 0 THEN 0
    ELSE FnVisibleAt(prog, NameF, k - 1)

\* in the code generator: the function the call instruction is bound to when
\* it is emitted, which for the call in the body of g is the definition of f
\* visible at g, or the declared f when none precedes g.
CodegenDefinition(prog, k) ==
    IF prog.statements[k].e.o.name = NameF THEN FnVisibleAt(prog, NameF, k - 1)
    ELSE IF FnVisibleAt(prog, NameG, k - 1) = 0 THEN 0
    ELSE FnBoundAt(prog, NameF, FnVisibleAt(prog, NameG, k - 1))

\* The statement that writes the output r.
LastR(prog) == LastAssignment(prog, NameR, Len(prog.statements))

\* The literal that is the body of definition d.
BodyValue(prog, d) == prog.statements[d].e.o.n

RedefinitionRun ==
    /\ phase = "ran"
    /\ given.kind = "ast"
    /\ given.program \in FnPrograms
    /\ IsDone(parsed)
    /\ testcase_inputs = <<>>

----------------------------------------------------------------------------
(* Calls to functions defined later *)

\* The statements that define `fn`.
DefinitionsOf(prog, fn) ==
    {d \in 1..Len(prog.statements) :
        prog.statements[d].t = "FnDefinition" /\ prog.statements[d].name = fn}

\* A run of a program of the pool in which the output r is written by
\* r = g(), the visible g is defined before every f, and every call of the
\* program is evaluated after a definition of what it calls, directly or
\* through g.
ForwardCallRun ==
    /\ RedefinitionRun
    /\ LastR(parsed.val) # 0
    /\ parsed.val.statements[LastR(parsed.val)].e.o.name = NameG
    /\ FnVisibleAt(parsed.val, NameG, LastR(parsed.val) - 1) # 0
    /\ FnVisibleAt(parsed.val, NameF, FnVisibleAt(parsed.val, NameG, LastR(parsed.val) - 1)) = 0
    /\ \A k \in 1..Len(parsed.val.statements) :
          parsed.val.statements[k].t = "VarAssignment"
              => InterpreterDefinition(parsed.val, k) # 0

\* A run of two mutually recursive functions on an input of the declared
\* length: the first defined calls the second before its definition.
MutualRun ==
    /\ phase = "ran"
    /\ given.kind = "ast"
    /\ given.program \in MutualPrograms
    /\ IsDone(parsed)
    /\ Len(testcase_inputs) = 1

\* Entered at f an even argument alternates down to f(0) = 1, entered at g
\* down to g(0) = 0.
MutualValue(prog) ==
    IF prog.statements[3].e.o.name = NameF THEN 1 ELSE 0

----------------------------------------------------------------------------
(* Statements in program order *)

\* Every statement of the program reads only names bound by the inputs and
\* the statements before it, and so does every output after the last one.
AllBound(prog, inputs_) ==
    /\ \A k \in 1..Len(prog.statements) :
          ValueAfter(prog, inputs_, prog.statements[k].e, k - 1).ok
    /\ \A i \in 1..Len(prog.outputs) :
          ValueAfter(prog, inputs_, Var(prog.outputs[i]), Len(prog.statements)).ok

\* C18: the k-th assignment is evaluated with the bindings of the inputs and
\* of statements 1..k-1 and then overwrites its name, so an output is the
\* value written by the last assignment to its name, or the input value when
\* the name is never assigned; a statement that reads a name not yet bound
\* fails the run.
C18_StatementsInProgramOrder ==
    (/\ phase = "ran"
     /\ given.kind = "ast"
     /\ given.program \in VarPrograms
     /\ IsDone(parsed)
     /\ Len(testcase_inputs) = 1)
        => IF AllBound(parsed.val, testcase_inputs)
           THEN /\ interpreted = Ok(ExpectedOutputs(parsed.val, testcase_inputs))
                /\ compiled.ok
                /\ ParseLines(compiled.v, 1) = ExpectedOutputs(parsed.val, testcase_inputs)
           ELSE /\ interpreted = InterpreterError("UnresolvedVariable")
                /\ ~compiled.ok

\* inputs a; x = a; x = x + 1; y = x; x = y * 2; outputs a, y, x; on 2: the
\* second statement reads the x of the first, the last overwrites it.
C18_Witness ==
    /\ phase = "ran"
    /\ given.kind = "ast"
    /\ given.program.inputs = <<NameA>>
    /\ given.program.statements
         = <<VarAssignment(NameX, Var(NameA)),
             VarAssignment(NameX, Operation("Add", Var(NameX), Lit(1))),
             VarAssignment(NameY, Var(NameX)),
             VarAssignment(NameX, Operation("Multiply", Var(NameY), Lit(2)))>>
    /\ given.program.outputs = <<NameA, NameY, NameX>>
    /\ testcase_inputs = <<2>>
    /\ interpreted = Ok(<<2, 3, 6>>)
    /\ compiled = Ok(<<DisplayI64(2), DisplayI64(3), DisplayI64(6)>>)

----------------------------------------------------------------------------
(* Arithmetic modulo 2^64 *)

\* Pairwise coprime moduli whose product exceeds 2^128: two natural numbers
\* below 2^128 with the same residue for every modulus are equal.
Moduli == {32749, 32719, 32717, 32713, 32707, 32693, 32687, 32653, 32647}

\* The natural number written by the bytes w[1..k], modulo m.
RECURSIVE ResidueFrom(_, _, _, _)
ResidueFrom(w, k, m, acc) ==
    IF k = 0 THEN acc ELSE ResidueFrom(w, k - 1, m, (acc * 256 + w[k]) % m)

Residue(w, m) == ResidueFrom(w, Len(w), m, 0)

\* 2^64, one byte longer than an i64.
TwoTo64 == [k \in 1..(WordBytes + 1) |-> IF k = WordBytes + 1 THEN 1 ELSE 0]

\* r = a + b modulo 2^64: a + b = r or a + b = r + 2^64 as natural numbers.
\* (A two's complement word and the signed integer it stands for differ by
\* a multiple of 2^64, so this is also the signed sum modulo 2^64 read as
\* signed.)
IsSum(a, b, r) ==
    \E carry \in {0, 1} :
        \A m \in Moduli :
            (Residue(a, m) + Residue(b, m)) % m
                = (Residue(r, m) + carry * Residue(TwoTo64, m)) % m

\* r = a - b modulo 2^64.
IsDifference(a, b, r) == IsSum(r, b, a)

\* r = a * b modulo 2^64: the low bytes of the product of twice the width,
\* which is a * b as a natural number.
IsProduct(a, b, r) ==
    /\ \A m \in Moduli :
          (Residue(a, m) * Residue(b, m)) % m
              = Residue(MulBytes(a, b, 1, 2 * WordBytes, 0), m)
    /\ r = SubSeq(MulBytes(a, b, 1, 2 * WordBytes, 0), 1, WordBytes)

\* q is a / b truncated toward zero: |a| = |q| * |b| + rest with
\* 0 <= rest < |b|, and q is 0 or has the sign of the exact quotient.
IsQuotient(a, b, q) ==
    /\ UnsignedLess(wrapping_sub(WordAbs(a), wrapping_mul(WordAbs(q), WordAbs(b))),
                    WordAbs(b), WordBytes)
    /\ \A m \in Moduli :
          (Residue(WordAbs(q), m) * Residue(WordAbs(b), m)
             + Residue(wrapping_sub(WordAbs(a), wrapping_mul(WordAbs(q), WordAbs(b))), m)) % m
              = Residue(WordAbs(a), m)
    /\ q = ToWord(0) \/ (IsNegative(q) <=> (IsNegative(a) # IsNegative(b)))

\* C19: Add, Subtract and Multiply on two i64 operands return, without an
\* error, the result modulo 2^64 read as signed, and the compiled add, sub
\* and mul give the same value.
C19_WrappingArithmetic ==
    (phase = "built" /\ given.op # "Divide")
        => /\ interpreted.ok
           /\ compiled = interpreted
           /\ CASE given.op = "Add" -> IsSum(given.lhs, given.rhs, interpreted.v)
                [] given.op = "Subtract" -> IsDifference(given.lhs, given.rhs, interpreted.v)
                [] given.op = "Multiply" -> IsProduct(given.lhs, given.rhs, interpreted.v)

\* i64::MAX + 1 is i64::MIN on both paths.
C19_Witness ==
    /\ phase = "built"
    /\ given.op = "Add"
    /\ given.lhs = I64Max
    /\ given.rhs = ToWord(1)
    /\ interpreted = Ok(I64Min)
    /\ compiled = Ok(I64Min)

\* C20 as stated: Divide with a non-zero divisor returns the quotient
\* truncated toward zero for every pair of i64 operands, i64::MIN / -1
\* included, identically in the interpreter and in the compiled sdiv.
C20_TruncatingDivision ==
    (phase = "built" /\ given.op = "Divide" /\ given.rhs # ToWord(0))
        => /\ interpreted.ok
           /\ compiled = interpreted
           /\ IsQuotient(given.lhs, given.rhs, interpreted.v)

----------------------------------------------------------------------------
(* Programs the code generator has to refuse *)

\* Every operand of an expression, at any depth.
RECURSIVE OperandsOf(_)
OperandsOf(e) ==
    IF IsOperation(e) THEN OperandsOf(e.l) \cup OperandsOf(e.r)
    ELSE {e.o}
         \cup (CASE e.o.t = "Group" -> OperandsOf(e.o.e)
                 [] e.o.t = "FnApplication" ->
                       UNION {OperandsOf(e.o.args[i]) : i \in 1..Len(e.o.args)}
                 [] e.o.t = "Match" ->
                       OperandsOf(e.o.m.with) \cup OperandsOf(e.o.m.default)
                       \cup UNION {OperandsOf(e.o.m.clauses[i][1].e)
                                   \cup OperandsOf(e.o.m.clauses[i][2]) :
                                   i \in 1..Len(e.o.m.clauses)}
                 [] OTHER -> {})

\* The names statement i may read: its parameters in a function definition,
\* else the inputs and the variables assigned by the statements before it.
Readable(prog, i) ==
    IF prog.statements[i].t = "FnDefinition" THEN Range(prog.statements[i].params)
    ELSE Range(prog.inputs)
         \cup {n \in {prog.statements[j].name : j \in 1..(i - 1)} :
                  LastAssignment(prog, n, i - 1) # 0}

\* Some statement reads a name with no binding in its scope.
ReadsUnbound(prog) ==
    \E i \in 1..Len(prog.statements) :
       \E o \in OperandsOf(prog.statements[i].e) :
          o.t = "VarSubstitution" /\ o.name \notin Readable(prog, i)

\* Some statement calls a name that no statement defines as a function of
\* that many parameters.
CallsUndefined(prog) ==
    \E i \in 1..Len(prog.statements) :
       \E o \in OperandsOf(prog.statements[i].e) :
          /\ o.t = "FnApplication"
          /\ \A j \in 1..Len(prog.statements) :
                (prog.statements[j].t = "FnDefinition" /\ prog.statements[j].name = o.name)
                    => Len(prog.statements[j].params) # Len(o.args)

----------------------------------------------------------------------------
(* The backend handles of a compilation *)

\* The handles that were released, in the order builder, module, context.
ReleasedInOrder(l) ==
    l.released \in {<<>>, <<"ctx">>, <<"builder", "module", "ctx">>}

\* While the module or the builder are live the context is live; a handle
\* is used only while it is live; nothing is acquired again; and when compile
\* has returned no handle is live and the releases came in nesting order.
HandlesNested ==
    /\ ~llvm.misused
    /\ (llvm.module = "live" \/ llvm.builder = "live") => llvm.ctx = "live"
    /\ \A h \in Handles : (llvm[h] = "released") <=> (\E i \in 1..Len(llvm.released) : llvm.released[i] = h)
    /\ Len(llvm.released) <= 3
    /\ phase = "returned"
          => /\ \A h \in Handles : llvm[h] # "live"
             /\ ReleasedInOrder(llvm)
             /\ (llvm.ctx = "released") => llvm.released[Len(llvm.released)] = "ctx"

----------------------------------------------------------------------------
(* Parentheses *)

\* The expression with every Group operand replaced by the expression in it.
RECURSIVE Ungrouped(_)
Ungrouped(e) ==
    IF IsOperation(e) THEN Operation(e.op, Ungrouped(e.l), Ungrouped(e.r))
    ELSE CASE e.o.t = "Group" -> Ungrouped(e.o.e)
           [] e.o.t = "FnApplication" ->
                 Operand(FnApplication(e.o.name,
                     [i \in 1..Len(e.o.args) |-> Ungrouped(e.o.args[i])]))
           [] e.o.t = "Match" ->
                 Operand(MatchOperand(Match(
                     Ungrouped(e.o.m.with),
                     [i \in 1..Len(e.o.m.clauses) |->
                         <<MatcherValue(Ungrouped(e.o.m.clauses[i][1].e)),
                           Ungrouped(e.o.m.clauses[i][2])>>],
                     Ungrouped(e.o.m.default))))
           [] OTHER -> e

UngroupedProgram(prog) ==
    [prog EXCEPT !.statements =
        [i \in 1..Len(prog.statements) |->
            [prog.statements[i] EXCEPT !.e = Ungrouped(prog.statements[i].e)]]]

HasGroup(prog) == UngroupedProgram(prog) # prog

\* C23: a program with Group operands and the program with the same trees
\* without them give the same result under interpretation, and the compiled
\* executable prints what the executable of the program without them prints.
C23_GroupTransparent ==
    (phase = "ran" /\ given.kind = "ast" /\ IsDone(parsed) /\ HasGroup(parsed.val))
        => /\ interpreted = interpret_program(Ok(UngroupedProgram(parsed.val)), testcase_inputs)
           /\ \E ub \in UBOutcomes :
                 compiled = run(compile_program(Ok(UngroupedProgram(parsed.val))),
                                testcase_inputs, ub)

\* `(a - 12) * a`-like: a Group around an Operation as the left child of an
\* Operation that binds tighter, with both paths printing the same value,
\* which is not the value of the tree `a - (12 * a)` the text without the
\* parentheses parses to.
C23_Witness ==
    /\ phase = "ran"
    /\ given.kind = "ast"
    /\ IsDone(parsed)
    /\ parsed.val = given.program
    /\ testcase_inputs = <<2>>
    /\ Len(parsed.val.statements) = 1
    /\ LET e == parsed.val.statements[1].e IN
       /\ IsOperation(e)
       /\ e.op = "Multiply"
       /\ ~IsOperation(e.l) /\ e.l.o.t = "Group"
       /\ IsOperation(e.l.o.e) /\ e.l.o.e.op = "Subtract"
       /\ e.l.o.e.l = Var(NameA) /\ e.l.o.e.r = Lit(-MaxInt)
       /\ e.r = Var(NameA)
    /\ interpreted = Ok(<<(2 + MaxInt) * 2>>)
    /\ compiled.ok
    /\ ParseLines(compiled.v, 1) = interpreted.v

----------------------------------------------------------------------------
(* Generated testcases under interpretation *)

\* C24 as stated: for every Program the generator can produce and one value
\* per declared input, the rendered text parses and interpret returns Ok.
C24_GeneratedInterprets ==
    (/\ phase \in {"interpreted", "ran"}
     /\ given.kind = "ast"
     /\ arbitrary_program(given.program)
     /\ Len(testcase_inputs) = Len(given.program.inputs))
        => (IsDone(parsed) /\ interpreted.ok)

----------------------------------------------------------------------------
(* Parentheses written by Display *)

\* The program is `inputs a; r = e; outputs r;`.
OneAssignment(prog) ==
    /\ prog.inputs = <<NameA>>
    /\ prog.outputs = <<NameR>>
    /\ Len(prog.statements) = 1
    /\ prog.statements[1].t = "VarAssignment"
    /\ prog.statements[1].name = NameR

\* The bytes of the rendered program between `r = ` and `;`.
RenderedExpression == SubSeq(src, 15, Len(src) - 12)

\* The text the claim describes: a child that is an Operation of strictly
\* lower rank than its parent between parentheses, any other child as it is.
RECURSIVE ClaimedText(_)
ClaimedText(e) ==
    IF ~IsOperation(e) THEN DisplayOperand(e.o)
    ELSE (IF IsOperation(e.l) /\ ClaimedRank(e.l.op) < ClaimedRank(e.op)
          THEN <<"(">> \o ClaimedText(e.l) \o <<")">> ELSE ClaimedText(e.l))
         \o <<" ">> \o DisplayOperator(e.op) \o <<" ">>
         \o (IF IsOperation(e.r) /\ ClaimedRank(e.r.op) < ClaimedRank(e.op)
             THEN <<"(">> \o ClaimedText(e.r) \o <<")">> ELSE ClaimedText(e.r))

\* The Operation-to-Operation edges of a tree whose child has the lower rank.
RECURSIVE LowerChildren(_)
LowerChildren(e) ==
    IF ~IsOperation(e) THEN 0
    ELSE LowerChildren(e.l) + LowerChildren(e.r)
         + (IF IsOperation(e.l) /\ ClaimedRank(e.l.op) < ClaimedRank(e.op) THEN 1 ELSE 0)
         + (IF IsOperation(e.r) /\ ClaimedRank(e.r.op) < ClaimedRank(e.op) THEN 1 ELSE 0)

\* C25: the rendering of an Operation has its child between parentheses if
\* and only if the child is an Operation whose operator ranks strictly lower
\* than the parent's, on the left and on the right alike; over operands that
\* bring no parenthesis of their own the text has as many `(` as the tree
\* has such children.
C25_ParenthesesIffLowerPrecedence ==
    (phase = "text" /\ given.kind = "ast" /\ OneAssignment(given.program)
     /\ IsOperation(given.program.statements[1].e))
        => /\ RenderedExpression = ClaimedText(given.program.statements[1].e)
           /\ given.program.statements[1].e \in AllTrees
                 => Cardinality({k \in 1..Len(RenderedExpression) : RenderedExpression[k] = "("})
                       = LowerChildren(given.program.statements[1].e)

\* `a - (a - -12)` as a tree: the right child has the operator of its parent
\* and is written without parentheses.
C25_Witness ==
    /\ phase = "text"
    /\ given.kind = "ast"
    /\ OneAssignment(given.program)
    /\ given.program.statements[1].e =
          Operation("Subtract", Var(NameA), Operation("Subtract", Var(NameA), Lit(-MaxInt)))
    /\ RenderedExpression = <<"a", " ", "-", " ", "a", " ", "-", " ">> \o DisplayI64(-MaxInt)

----------------------------------------------------------------------------
(* The trees the expression parser returns *)

\* What the parser named by `entry` returned is in precedence normal form.
ParsedNormal ==
    CASE entry = "program" -> NormalProgram(parsed.val)
      [] entry = "expression" -> NormalExpression(parsed.val)
      [] entry = "operand" -> NormalOperand(parsed.val)
      [] entry = "match_" -> NormalOperand(MatchOperand(parsed.val))

\* C26: every tree returned by the expression parser is in precedence normal
\* form: no Operation has a direct child Operation of strictly lower
\* precedence, and none has a direct right child Operation of equal
\* precedence.
C26_ParsedInNormalForm ==
    (phase = "parsed" /\ IsDone(parsed)) => ParsedNormal

\* `1 - 2 * 3 - 4`: the second `-` folds the `*` and then the first `-`
\* before it is pushed, and the tree is ((1 - (2 * 3)) - 4).
C26_Witness ==
    /\ phase = "parsed"
    /\ given.kind = "chain"
    /\ entry = "expression"
    /\ given.operators = <<"Subtract", "Multiply", "Subtract">>
    /\ given.operands = <<I64(1), I64(2), I64(3), I64(4)>>
    /\ IsDone(parsed)
    /\ parsed.val = Operation("Subtract",
                        Operation("Subtract", Lit(1), Operation("Multiply", Lit(2), Lit(3))),
                        Lit(4))

\* The operands and operators of a written chain, in the order written.
RECURSIVE WrittenTokens(_, _)
WrittenTokens(operands, operators) ==
    IF operators = <<>> THEN <<OperandToken(operands[1])>>
    ELSE <<OperandToken(operands[1]), OperatorToken(operators[1])>>
         \o WrittenTokens(Tail(operands), Tail(operators))

\* C27: the tokens of the tree returned for `operand (operator operand)*`
\* are the operands and operators of the input in the order written, none
\* dropped, duplicated or moved, however many were pushed.
C27_TokenOrderPreserved ==
    (phase = "parsed" /\ given.kind = "chain" /\ IsDone(parsed))
        => tokens(ParsedExpression) = WrittenTokens(given.operands, given.operators)

\* `1 * 2 - 3 * 4 + 5` with four pushes: the tree is not a left comb, and its
\* tokens are the nine written.
C27_Witness ==
    /\ phase = "parsed"
    /\ given.kind = "chain"
    /\ entry = "expression"
    /\ given.operators = <<"Multiply", "Subtract", "Multiply", "Add">>
    /\ Len(given.operands) = 5
    /\ given.operands[5] = I64(5)
    /\ IsDone(parsed)
    /\ IsOperation(parsed.val)
    /\ IsOperation(parsed.val.r)
    /\ Len(tokens(parsed.val)) = 9
    /\ tokens(parsed.val) = WrittenTokens(given.operands, given.operators)

----------------------------------------------------------------------------
(* The value of an expression and of its rendering *)

\* C28 as stated: for every Expression e (the right side of
\* `inputs a; r = e; outputs r;`) and every value of a under which e evaluates
\* without error, the expression parsed from the rendering of e evaluates to
\* the same value as e, trees with a right child Operation of the parent's
\* operator included.
C28_RenderingPreservesMeaning ==
    (/\ phase \in {"interpreted", "ran"}
     /\ given.kind = "ast"
     /\ OneAssignment(given.program)
     /\ execute(given.program, testcase_inputs).ok)
        => (/\ IsDone(parsed)
            /\ interpreted = InterpreterResult(execute(given.program, testcase_inputs)))

----------------------------------------------------------------------------
(* Rendering a second time *)

\* C29: for every program whose rendering parses, the rendering of the parsed
\* program is the rendering it was parsed from, byte for byte, also when the
\* parsed tree differs from the given one (a Group added around a child that
\* was written in parentheses, a match with its default arm written last).
C29_RenderingFixedPoint ==
    phase \in {"rendered", "reparsed"} => rendered = src

\* (a + -12) * a given as Operation(Multiply, Operation(Add, ..), a): the
\* parser returns a Group as the left child, and the rendering is unchanged.
C29_Witness ==
    /\ phase = "rendered"
    /\ OneAssignment(given.program)
    /\ given.program.statements[1].e =
           Operation("Multiply", Operation("Add", Var(NameA), Lit(-MaxInt)), Var(NameA))
    /\ parsed.val # given.program
    /\ parsed.val.statements[1].e.l = Operand(Group(Operation("Add", Var(NameA), Lit(-MaxInt))))
    /\ rendered = src
    /\ rendered = DisplayProgram(parsed.val)

====
